---- MODULE Spec2Model ----
(***************************************************************************)
(* Server core of the multi-room blackjack game: RoomManager, Room,        *)
(* GameState, Player, Deck, BettingManager, GameEngine, DealerAI and the   *)
(* WebSocketHandler event handlers that drive them.                        *)
(*                                                                         *)
(* Objects live in a heap: GameState objects in gs (a Room holds the id of *)
(* its current one, a pending dealer turn the id it was started with),     *)
(* Player objects in player.  Node runs every handler and every timer      *)
(* callback to completion, so each of them is one action; an await on a    *)
(* timer ends the action and leaves a task whose next step is a later      *)
(* action.  Money is counted in half dollars so that the 3:2 payout is an  *)
(* integer.  A Deck is kept as the outcome of its last shuffle and the      *)
(* number of cards not yet popped; cards(deck) is its cards array.         *)
(***************************************************************************)
EXTENDS Integers, Sequences, FiniteSets, TLC

VARIABLES
  room,           \* RoomManager.rooms: room id -> Room object
  gs,             \* heap of GameState objects: id -> GameState
  player,         \* heap of Player objects: player id -> Player
  playerRoomMap,  \* RoomManager.playerRoomMap: player id -> room id
  socketRoom,     \* player id -> socket.roomId of the socket joined as that player
  tasks,          \* playDealerTurnAsync calls and reset timers still pending
  pendingActions, \* GameEngine.pendingActions: room id -> lock
  rounds          \* rounds started so far

vars == <<room, gs, player, playerRoomMap, socketRoom, tasks, pendingActions,
          rounds>>

(***************************************************************************)
(* Bounds and program constants                                            *)
(***************************************************************************)
RoomIds == {"room1", "room2", "room3"}
PlayerIds == {"p1", "p2", "p3"}
GameRooms == {"room1"}
GamePlayers == {"p1", "p2"}
MaxPlayersPerRoom == 2
MaxRounds == 1
MaxTasks == 2
MaxGs == 12
GsIds == 0 .. (MaxGs - 1)

INITIAL_BALANCE == 1000
MIN_BET == 1
actionTimeout == 100
hitThreshold == 17
maxRooms == 10

NoPlayer == "NoPlayer"
NoRoom == "NoRoom"

Min(a, b) == IF a < b THEN a ELSE b
Range(s) == {s[i] : i \in 1 .. Len(s)}

\* a Map: the function f with key k set to v, and with key k deleted
Put(f, k, v) == [x \in (DOMAIN f) \cup {k} |-> IF x = k THEN v ELSE f[x]]
Del(f, k) == [x \in (DOMAIN f) \ {k} |-> f[x]]

\* amounts of money in half dollars
Dollars(n) == 2 * n

(***************************************************************************)
(* Card, Deck                                                              *)
(***************************************************************************)
calculateValue(rank) ==
  IF rank = "A" THEN 11
  ELSE IF rank \in {"J", "Q", "K"} THEN 10
  ELSE CASE rank = "2" -> 2 [] rank = "3" -> 3 [] rank = "4" -> 4
         [] rank = "5" -> 5 [] rank = "6" -> 6 [] rank = "7" -> 7
         [] rank = "8" -> 8 [] rank = "9" -> 9 [] rank = "10" -> 10

Card(suit, rank) ==
  [suit |-> suit, rank |-> rank, value |-> calculateValue(rank), hidden |-> FALSE]

setHidden(card, hidden) == [card EXCEPT !.hidden = hidden]

suits == <<"hearts", "diamonds", "clubs", "spades">>
ranks == <<"A", "2", "3", "4", "5", "6", "7", "8", "9", "10", "J", "Q", "K">>

\* Deck.initializeDeck: the cards array it builds
initializeDeck ==
  [i \in 1 .. (Len(suits) * Len(ranks)) |->
     Card(suits[((i - 1) \div Len(ranks)) + 1], ranks[((i - 1) % Len(ranks)) + 1])]

Reverse(s) == [i \in 1 .. Len(s) |-> s[Len(s) + 1 - i]]

\* The outcomes of Deck.shuffle that are tried, each named by the cards its
\* first pops return; the cards under them lie as initializeDeck put them.
Tops ==
  << <<>>,
     <<Card("spades", "A"), Card("hearts", "A"), Card("spades", "K"),
       Card("hearts", "K"), Card("diamonds", "K"), Card("spades", "9")>>,
     <<Card("spades", "9"), Card("spades", "6"), Card("spades", "5"),
       Card("hearts", "5"), Card("spades", "4"), Card("spades", "3"),
       Card("spades", "2"), Card("spades", "K")>>,
     <<Card("spades", "K"), Card("spades", "9"), Card("spades", "6"),
       Card("spades", "5"), Card("spades", "8"), Card("hearts", "K")>>,
     <<Card("diamonds", "K"), Card("diamonds", "A"), Card("clubs", "7"),
       Card("diamonds", "9"), Card("diamonds", "Q"), Card("clubs", "10")>> >>

Shuffles == 1 .. Len(Tops)

\* the cards array after the shuffle with outcome k
shuffle(k) ==
  SelectSeq(initializeDeck, LAMBDA c : c \notin Range(Tops[k])) \o Reverse(Tops[k])

\* new Deck(), and Deck.reset: a full deck shuffled with outcome k
NewDeck(k) == [shuffle |-> k, left |-> Len(initializeDeck)]

\* deck.cards
cards(deck) == SubSeq(shuffle(deck.shuffle), 1, deck.left)

\* Deck.dealCard on a deck that is not empty: the card popped, the deck left
dealCard(deck) == shuffle(deck.shuffle)[deck.left]
popped_keeps(deck) == deck
popped(deck) == [deck EXCEPT !.left = deck.left - 1]
isDeckEmpty(deck) == deck.left = 0

(***************************************************************************)
(* Player                                                                  *)
(***************************************************************************)
NewPlayer ==
  [isConnected |-> TRUE, currentHand |-> <<>>, handValue |-> 0,
   status |-> "waiting", balance |-> 0, currentBet |-> 0, hasBet |-> FALSE]

RECURSIVE SumAces11(_)
SumAces11(hand) ==
  IF hand = <<>> THEN 0
  ELSE (IF Head(hand).rank = "A" THEN 11 ELSE Head(hand).value)
       + SumAces11(Tail(hand))

AceCount(hand) == Cardinality({i \in 1 .. Len(hand) : hand[i].rank = "A"})

RECURSIVE AdjustAces(_, _)
AdjustAces(value, aceCount) ==
  IF value > 21 /\ aceCount > 0 THEN AdjustAces(value - 10, aceCount - 1)
  ELSE value

\* a hand value that turns every ace to 1 as soon as the hand is above 21
calculateHandValue_allAcesLow(hand) ==
  IF SumAces11(hand) > 21 THEN SumAces11(hand) - 10 * AceCount(hand)
  ELSE SumAces11(hand)

calculateHandValue(hand) == AdjustAces(SumAces11(hand), AceCount(hand))

updateStatus(p) ==
  IF p.handValue > 21 THEN [p EXCEPT !.status = "bust"]
  ELSE IF p.handValue = 21 /\ Len(p.currentHand) = 2
       THEN [p EXCEPT !.status = "blackjack"]
       ELSE p

addCard(p, card) ==
  LET hand == Append(p.currentHand, card)
  IN updateStatus([p EXCEPT !.currentHand = hand,
                            !.handValue = calculateHandValue(hand)])

setStatus(p, status) == [p EXCEPT !.status = status]

resetHand(p) ==
  [p EXCEPT !.currentHand = <<>>, !.handValue = 0, !.status = "waiting"]

canTakeAction(p) == p.status = "playing" /\ p.isConnected

(***************************************************************************)
(* BettingManager                                                          *)
(***************************************************************************)
CHIP_DENOMINATIONS == {1, 5, 25, 100, 500, 1000, 5000}

initializePlayerBalance(p) ==
  [p EXCEPT !.balance = Dollars(INITIAL_BALANCE), !.currentBet = 0,
            !.hasBet = FALSE]

\* isValidChipCombination for a whole number of dollars.  ChipDp is the
\* loop for i from i to amount: reach is the set of the indices at which dp
\* is true before it, the value the set after it.  A loop of more than one
\* round is its first half followed by its second half; reach holds 0, so
\* the set after the first half is never empty.
RECURSIVE ChipDp(_, _, _)
ChipDp(i, amount, reach) ==
  IF i > amount THEN reach
  ELSE IF i = amount
  THEN IF \E chip \in CHIP_DENOMINATIONS : i >= chip /\ (i - chip) \in reach
       THEN reach \cup {i} ELSE reach
  ELSE LET half == ChipDp(i, (i + amount) \div 2, reach)
       IN IF half = {} THEN half
          ELSE ChipDp(((i + amount) \div 2) + 1, amount, half)

isValidChipCombination(dollars) == dollars \in ChipDp(1, dollars, {0})

\* A value passed as a bet: a finite number n of half dollars, or one of the
\* values that are not finite numbers.
Number(n) == [type |-> "number", is |-> "finite", n |-> n]
NaN == [type |-> "number", is |-> "NaN", n |-> 0]
Infinity == [type |-> "number", is |-> "Infinity", n |-> 0]
undefined == [type |-> "undefined", is |-> "undefined", n |-> 0]
String(str) == [type |-> "string", is |-> str, n |-> 0]

\* typeof bet !== 'number' || isNaN(bet) || !isFinite(bet)
notFiniteNumber(bet) == bet.type # "number" \/ bet.is # "finite"

\* validateBet; a finite bet and the balance in half dollars.
\* new Array(amount + 1) throws a RangeError when amount is not a whole
\* number.
validateBet(bet, balance) ==
  IF notFiniteNumber(bet) THEN [valid |-> FALSE, reason |-> "Invalid bet amount format"]
  ELSE IF bet.n < Dollars(MIN_BET) THEN [valid |-> FALSE, reason |-> "Bet must be at least $1"]
  ELSE IF bet.n > balance THEN [valid |-> FALSE, reason |-> "Insufficient balance"]
  ELSE IF bet.n % 2 # 0 THEN [valid |-> FALSE, reason |-> "RangeError"]
  ELSE IF ~isValidChipCombination(bet.n \div 2)
       THEN [valid |-> FALSE, reason |-> "Invalid chip combination"]
       ELSE [valid |-> TRUE, reason |-> ""]

\* a payout that pays a blackjack like any other win
calculatePayout_even(betAmount, result) ==
  CASE result = "blackjack" -> betAmount + betAmount
    [] result = "win" -> betAmount + betAmount
    [] result = "push" -> betAmount
    [] result = "lose" -> 0
    [] OTHER -> 0

calculatePayout(betAmount, result) ==
  CASE result = "blackjack" -> betAmount + (betAmount * 3) \div 2
    [] result = "win" -> betAmount + betAmount
    [] result = "push" -> betAmount
    [] result = "lose" -> 0
    [] OTHER -> 0

\* a payout that leaves the wager standing
updateBalance_keepsBet(p, payout) == [p EXCEPT !.balance = p.balance + payout]

updateBalance(p, payout) ==
  [p EXCEPT !.balance = p.balance + payout, !.currentBet = 0, !.hasBet = FALSE]

resetBalance(p) ==
  [p EXCEPT !.balance = Dollars(INITIAL_BALANCE), !.currentBet = 0,
            !.hasBet = FALSE]

\* a bet that is recorded without being taken from the balance
BettingManager_placeBet_free(p, amount) ==
  LET validation == validateBet(amount, p.balance)
  IN IF ~validation.valid
     THEN [success |-> FALSE, reason |-> validation.reason, p |-> p]
     ELSE [success |-> TRUE, reason |-> "",
           p |-> [p EXCEPT !.currentBet = amount.n, !.hasBet = TRUE]]

BettingManager_placeBet(p, amount) ==
  LET validation == validateBet(amount, p.balance)
  IN IF ~validation.valid
     THEN [success |-> FALSE, reason |-> validation.reason, p |-> p]
     ELSE [success |-> TRUE, reason |-> "",
           p |-> [p EXCEPT !.balance = p.balance - amount.n,
                           !.currentBet = amount.n, !.hasBet = TRUE]]

(***************************************************************************)
(* GameState.  A heap H is a record [room, gs, player]; an operation on    *)
(* the GameState with id g that also writes Player objects takes H and     *)
(* gives the heap after it.                                                *)
(***************************************************************************)
NewDealer == [hand |-> <<>>, status |-> "waiting", handValue |-> 0]

\* new GameState(roomId); its deck is shuffled again by startGame before the
\* first pop, so one outcome of the constructor's shuffle stands for all
NewGameState(roomId) ==
  [roomId |-> roomId, status |-> "waiting", players |-> <<>>,
   dealer |-> NewDealer, deck |-> NewDeck(1), currentPlayerIndex |-> 0,
   winners |-> <<>>, payouts |-> <<>>]

GameState_addPlayer(G, pid) == [G EXCEPT !.players = Append(G.players, pid)]

\* players.findIndex(p => p.id === playerId), 0 when there is none
findIndex(players, pid) ==
  IF pid \in Range(players)
  THEN CHOOSE i \in 1 .. Len(players) :
         players[i] = pid /\ \A j \in 1 .. (i - 1) : players[j] # pid
  ELSE 0

splice(players, i) ==
  [j \in 1 .. (Len(players) - 1) |-> IF j < i THEN players[j] ELSE players[j + 1]]

GameState_removePlayer(G, pid) ==
  LET index == findIndex(G.players, pid)
  IN IF index # 0 THEN [G EXCEPT !.players = splice(G.players, index)] ELSE G

GameState_getPlayer(G, pid) == IF pid \in Range(G.players) THEN pid ELSE NoPlayer

getCurrentPlayer(G) ==
  IF G.currentPlayerIndex >= 0 /\ G.currentPlayerIndex < Len(G.players)
  THEN G.players[G.currentPlayerIndex + 1]
  ELSE NoPlayer

nextPlayer(G) == [G EXCEPT !.currentPlayerIndex = G.currentPlayerIndex + 1]

calculateDealerHandValue(hand) == AdjustAces(SumAces11(hand), AceCount(hand))

addCardToDealer(G, card) ==
  LET hand == Append(G.dealer.hand, card)
  IN [G EXCEPT !.dealer.hand = hand,
               !.dealer.handValue = calculateDealerHandValue(hand)]

revealDealerCard(G) ==
  LET hand == [i \in 1 .. Len(G.dealer.hand) |-> setHidden(G.dealer.hand[i], FALSE)]
  IN [G EXCEPT !.dealer.hand = hand,
               !.dealer.handValue = calculateDealerHandValue(hand)]

areAllPlayersDone(H, g) ==
  \A i \in 1 .. Len(H.gs[g].players) :
    H.player[H.gs[g].players[i]].status \in {"stand", "bust", "blackjack"}

areAllPlayersBetPlaced(H, g) ==
  Len(H.gs[g].players) > 0
  /\ \A i \in 1 .. Len(H.gs[g].players) : H.player[H.gs[g].players[i]].hasBet

\* GameState.startGame; k: the outcome of the shuffle of deck.reset()
GameState_startGame(H, g, k) ==
  LET G == H.gs[g]
      seated == Range(G.players)
  IN [H EXCEPT
        !.gs[g] = [G EXCEPT !.status = "playing", !.currentPlayerIndex = 0,
                            !.winners = <<>>, !.deck = NewDeck(k),
                            !.dealer = NewDealer],
        !.player = [p \in DOMAIN H.player |->
                      IF p \in seated
                      THEN setStatus(resetHand(H.player[p]), "playing")
                      ELSE H.player[p]]]

\* who receives the pops of dealInitialCards, in order
DealOrder(players) ==
  players \o <<"dealer">> \o players \o <<"dealer hidden">>

\* the heap after the first n pops of dealInitialCards; a pop from the
\* empty deck returns null and nothing is added
RECURSIVE DealLoop(_, _, _, _)
DealLoop(H, g, order, n) ==
  IF n = 0 THEN H
  ELSE LET H1 == DealLoop(H, g, order, n - 1)
           to == order[n]
           deck == H1.gs[g].deck
           c == dealCard(deck)
           H2 == [H1 EXCEPT !.gs[g].deck = popped(deck)]
       IN IF isDeckEmpty(deck) THEN H1
          ELSE IF to = "dealer"
          THEN [H2 EXCEPT !.gs[g].dealer.hand = Append(@, c)]
          ELSE IF to = "dealer hidden"
          THEN [H2 EXCEPT !.gs[g].dealer.hand = Append(@, setHidden(c, TRUE))]
          ELSE [H2 EXCEPT !.player[to] = addCard(@, c)]

\* the first index from i on whose player can take an action
RECURSIVE SkipToActing(_, _, _)
SkipToActing(H, g, i) ==
  IF i < Len(H.gs[g].players) /\ ~canTakeAction(H.player[H.gs[g].players[i + 1]])
  THEN SkipToActing(H, g, i + 1)
  ELSE i

dealInitialCards(H, g) ==
  LET order == DealOrder(H.gs[g].players)
      H1 == DealLoop(H, g, order, Len(order))
      H2 == [H1 EXCEPT !.gs[g].dealer.handValue =
                          calculateDealerHandValue(H1.gs[g].dealer.hand)]
  IN [H2 EXCEPT !.gs[g].currentPlayerIndex =
                   SkipToActing(H2, g, H2.gs[g].currentPlayerIndex)]

\* winners picked without looking at who went bust
RECURSIVE WinnersOf_bustWins(_, _, _)
WinnersOf_bustWins(H, g, n) ==
  IF n = 0 THEN <<>>
  ELSE LET pid == H.gs[g].players[n]
           p == H.player[pid]
           dealerValue == H.gs[g].dealer.handValue
           rest == WinnersOf_bustWins(H, g, n - 1)
       IN IF dealerValue > 21 THEN Append(rest, pid)
          ELSE IF p.handValue > dealerValue THEN Append(rest, pid)
          ELSE rest

\* winners that must also hold the best hand at the table
WinnersOf_best(H, g, n) ==
  SelectSeq(SubSeq(H.gs[g].players, 1, n),
            LAMBDA pid :
              /\ H.player[pid].status # "bust"
              /\ \/ H.gs[g].dealer.handValue > 21
                 \/ H.player[pid].handValue > H.gs[g].dealer.handValue
              /\ \A i \in 1 .. Len(H.gs[g].players) :
                   H.player[H.gs[g].players[i]].handValue <= H.player[pid].handValue)

\* GameState.determineWinners: the ids pushed to winners, in seat order
RECURSIVE WinnersOf(_, _, _)
WinnersOf(H, g, n) ==
  IF n = 0 THEN <<>>
  ELSE LET pid == H.gs[g].players[n]
           p == H.player[pid]
           dealerValue == H.gs[g].dealer.handValue
           dealerBust == dealerValue > 21
           rest == WinnersOf(H, g, n - 1)
       IN IF p.status = "bust" THEN rest
          ELSE IF dealerBust THEN Append(rest, pid)
          ELSE IF p.handValue > dealerValue THEN Append(rest, pid)
          ELSE rest

GameState_determineWinners(H, g) ==
  [H EXCEPT !.gs[g].winners = WinnersOf(H, g, Len(H.gs[g].players))]

GameState_endGame(H, g) ==
  GameState_determineWinners(
    [H EXCEPT !.gs[g].status = "finished", !.gs[g].dealer.status = "finished"], g)

GameState_startBettingPhase(H, g) ==
  LET seated == Range(H.gs[g].players)
  IN [H EXCEPT !.gs[g].status = "betting", !.gs[g].payouts = <<>>,
               !.player = [p \in DOMAIN H.player |->
                             IF p \in seated
                             THEN [H.player[p] EXCEPT !.hasBet = FALSE]
                             ELSE H.player[p]]]

(***************************************************************************)
(* Room                                                                    *)
(***************************************************************************)
\* the least GameState id the heap does not use
NewGsId(H) == CHOOSE g \in GsIds \ DOMAIN H.gs : \A h \in GsIds \ DOMAIN H.gs : g <= h

NewRoom(H, roomId, maxPlayers) ==
  LET g == NewGsId(H)
  IN [H EXCEPT !.gs = Put(H.gs, g, NewGameState(roomId)),
               !.room = Put(H.room, roomId,
                            [gs |-> g, maxPlayers |-> maxPlayers,
                             isGameInProgress |-> FALSE])]

Room_gameState(H, r) == H.gs[H.room[r].gs]
Room_getPlayers(H, r) == Room_gameState(H, r).players
getPlayerCount(H, r) == Len(Room_getPlayers(H, r))
isEmpty(H, r) == getPlayerCount(H, r) = 0
Room_getPlayer(H, r, pid) == GameState_getPlayer(Room_gameState(H, r), pid)

\* a reset that leaves the wagers standing
Room_resetGame_keepsBets(H, r) ==
  LET currentPlayers == Room_gameState(H, r).players
      g == NewGsId(H)
      seated == Range(currentPlayers)
  IN [H EXCEPT
        !.room[r].isGameInProgress = FALSE,
        !.room[r].gs = g,
        !.gs = Put(H.gs, g, [NewGameState(r) EXCEPT !.players = currentPlayers]),
        !.player = [p \in DOMAIN H.player |->
                      IF p \in seated THEN resetHand(H.player[p]) ELSE H.player[p]]]

\* Room.resetGame: a new GameState, the same Player objects re-added to it
Room_resetGame(H, r) ==
  LET currentPlayers == Room_gameState(H, r).players
      g == NewGsId(H)
      seated == Range(currentPlayers)
  IN [H EXCEPT
        !.room[r].isGameInProgress = FALSE,
        !.room[r].gs = g,
        !.gs = Put(H.gs, g, [NewGameState(r) EXCEPT !.players = currentPlayers]),
        !.player = [p \in DOMAIN H.player |->
                      IF p \in seated
                      THEN [resetHand(H.player[p]) EXCEPT !.hasBet = FALSE,
                                                          !.currentBet = 0]
                      ELSE H.player[p]]]

\* Room.addPlayer of the Player object obj with id pid
Room_addPlayer(H, r, pid, obj) ==
  IF getPlayerCount(H, r) >= H.room[r].maxPlayers THEN [ok |-> FALSE, H |-> H]
  ELSE IF H.room[r].isGameInProgress THEN [ok |-> FALSE, H |-> H]
  ELSE IF Room_getPlayer(H, r, pid) # NoPlayer THEN [ok |-> FALSE, H |-> H]
  ELSE [ok |-> TRUE,
        H |-> [H EXCEPT !.gs[H.room[r].gs] = GameState_addPlayer(@, pid),
                        !.player = Put(H.player, pid, obj)]]

\* a removal that never resets the game
Room_removePlayer_noReset(H, r, pid) ==
  LET g == H.room[r].gs
      removed == findIndex(H.gs[g].players, pid) # 0
  IN IF ~removed THEN [ok |-> FALSE, H |-> H]
     ELSE [ok |-> TRUE, H |-> [H EXCEPT !.gs[g] = GameState_removePlayer(@, pid)]]

Room_removePlayer(H, r, pid) ==
  LET g == H.room[r].gs
      removed == findIndex(H.gs[g].players, pid) # 0
      H1 == [H EXCEPT !.gs[g] = GameState_removePlayer(@, pid)]
  IN IF ~removed THEN [ok |-> FALSE, H |-> H]
     ELSE IF Len(H1.gs[g].players) = 0 /\ H1.room[r].isGameInProgress
          THEN [ok |-> TRUE, H |-> Room_resetGame(H1, r)]
          ELSE [ok |-> TRUE, H |-> H1]

Room_startBettingPhase(H, r) ==
  IF getPlayerCount(H, r) = 0 THEN [ok |-> FALSE, H |-> H]
  ELSE IF H.room[r].isGameInProgress THEN [ok |-> FALSE, H |-> H]
  ELSE [ok |-> TRUE, H |-> [H EXCEPT !.gs[H.room[r].gs].status = "betting"]]

\* a round-start check that is content with one bet
allPlayersHaveBet_any(H, r) ==
  \E i \in 1 .. getPlayerCount(H, r) : H.player[Room_getPlayers(H, r)[i]].hasBet

allPlayersHaveBet(H, r) ==
  IF getPlayerCount(H, r) = 0 THEN FALSE
  ELSE \A i \in 1 .. getPlayerCount(H, r) : H.player[Room_getPlayers(H, r)[i]].hasBet

\* Room.startGame; k: the outcome of the shuffle
Room_startGame(H, r, k) ==
  IF getPlayerCount(H, r) = 0 THEN [ok |-> FALSE, H |-> H]
  ELSE IF H.room[r].isGameInProgress THEN [ok |-> FALSE, H |-> H]
  ELSE IF ~allPlayersHaveBet(H, r) THEN [ok |-> FALSE, H |-> H]
  ELSE LET g == H.room[r].gs
           H1 == [H EXCEPT !.room[r].isGameInProgress = TRUE]
       IN [ok |-> TRUE,
           H |-> dealInitialCards(GameState_startGame(H1, g, k), g)]

Room_endGame(H, r) ==
  [GameState_endGame(H, H.room[r].gs) EXCEPT !.room[r].isGameInProgress = FALSE]

(***************************************************************************)
(* GameEngine, DealerAI                                                    *)
(***************************************************************************)
\* action.toLowerCase().trim()
normalize(action) ==
  CASE action \in {"hit", "HIT", " hit "} -> "hit"
    [] action \in {"stand", "STAND", " stand "} -> "stand"
    [] OTHER -> action

\* a validation that forgets whose turn it is
validateAction_anyTurn(H, g, playerId, action) ==
  IF g \notin DOMAIN H.gs
  THEN [valid |-> FALSE, reason |-> "Game state not found"]
  ELSE IF H.gs[g].status # "playing"
  THEN [valid |-> FALSE, reason |-> "Game is not in progress"]
  ELSE IF GameState_getPlayer(H.gs[g], playerId) = NoPlayer
  THEN [valid |-> FALSE, reason |-> "Player not found"]
  ELSE IF ~canTakeAction(H.player[playerId])
  THEN [valid |-> FALSE, reason |-> "Player cannot take action (bust or disconnected)"]
  ELSE IF normalize(action) # "hit" /\ normalize(action) # "stand"
  THEN [valid |-> FALSE, reason |-> "Invalid action type"]
  ELSE [valid |-> TRUE, reason |-> ""]

\* playerId.length > 100 || /[<>"']/.test(playerId), on the ids tried
isMalformedId(playerId) == playerId \in {"<p1>"}

\* a validation that looks at the action before it looks at the player
validateAction_actionFirst(H, g, playerId, action) ==
  IF g \notin DOMAIN H.gs
  THEN [valid |-> FALSE, reason |-> "Game state not found"]
  ELSE IF H.gs[g].status # "playing"
  THEN [valid |-> FALSE, reason |-> "Game is not in progress"]
  ELSE IF action = ""
  THEN [valid |-> FALSE, reason |-> "Invalid action format"]
  ELSE IF normalize(action) # "hit" /\ normalize(action) # "stand"
  THEN [valid |-> FALSE, reason |-> "Invalid action type"]
  ELSE IF playerId = ""
  THEN [valid |-> FALSE, reason |-> "Invalid player ID"]
  ELSE IF isMalformedId(playerId)
  THEN [valid |-> FALSE, reason |-> "Invalid player ID format"]
  ELSE IF GameState_getPlayer(H.gs[g], playerId) = NoPlayer
  THEN [valid |-> FALSE, reason |-> "Player not found"]
  ELSE IF getCurrentPlayer(H.gs[g]) = NoPlayer \/ getCurrentPlayer(H.gs[g]) # playerId
  THEN [valid |-> FALSE, reason |-> "Not player's turn"]
  ELSE IF ~canTakeAction(H.player[playerId])
  THEN [valid |-> FALSE, reason |-> "Player cannot take action (bust or disconnected)"]
  ELSE [valid |-> TRUE, reason |-> ""]

validateAction(H, g, playerId, action) ==
  IF g \notin DOMAIN H.gs
  THEN [valid |-> FALSE, reason |-> "Game state not found"]
  ELSE IF H.gs[g].status # "playing"
  THEN [valid |-> FALSE, reason |-> "Game is not in progress"]
  ELSE IF playerId = ""
  THEN [valid |-> FALSE, reason |-> "Invalid player ID"]
  ELSE IF isMalformedId(playerId)
  THEN [valid |-> FALSE, reason |-> "Invalid player ID format"]
  ELSE IF GameState_getPlayer(H.gs[g], playerId) = NoPlayer
  THEN [valid |-> FALSE, reason |-> "Player not found"]
  ELSE IF getCurrentPlayer(H.gs[g]) = NoPlayer \/ getCurrentPlayer(H.gs[g]) # playerId
  THEN [valid |-> FALSE, reason |-> "Not player's turn"]
  ELSE IF ~canTakeAction(H.player[playerId])
  THEN [valid |-> FALSE, reason |-> "Player cannot take action (bust or disconnected)"]
  ELSE IF action = ""
  THEN [valid |-> FALSE, reason |-> "Invalid action format"]
  ELSE IF normalize(action) # "hit" /\ normalize(action) # "stand"
  THEN [valid |-> FALSE, reason |-> "Invalid action type"]
  ELSE [valid |-> TRUE, reason |-> ""]

\* a check that lets every action through
checkActionConflict_open(pending, roomId, elapsed) == [allowed |-> TRUE, reason |-> ""]

\* a check that is stopped by the fresh lock of any room
checkActionConflict_anyRoom(pending, roomId, elapsed) ==
  IF DOMAIN pending = {} THEN [allowed |-> TRUE, reason |-> ""]
  ELSE IF elapsed < actionTimeout
  THEN [allowed |-> FALSE, reason |-> "Another action is being processed. Please wait."]
  ELSE [allowed |-> TRUE, reason |-> ""]

\* a check for which a lock never grows old
checkActionConflict_forever(pending, roomId, elapsed) ==
  IF roomId \notin DOMAIN pending THEN [allowed |-> TRUE, reason |-> ""]
  ELSE [allowed |-> FALSE, reason |-> "Another action is being processed. Please wait."]

\* elapsed: Date.now() - pending.timestamp at the time of the call
checkActionConflict(pending, roomId, elapsed) ==
  IF roomId \notin DOMAIN pending THEN [allowed |-> TRUE, reason |-> ""]
  ELSE IF elapsed < actionTimeout
  THEN [allowed |-> FALSE, reason |-> "Another action is being processed. Please wait."]
  ELSE [allowed |-> TRUE, reason |-> ""]

lockAction(pending, roomId, playerId) == Put(pending, roomId, [playerId |-> playerId])

unlockAction(pending, roomId) == Del(pending, roomId)

\* a hit that leaves the turn with a player who went bust
processHit_bustKeepsTurn(H, g, pid) ==
  IF isDeckEmpty(H.gs[g].deck)
  THEN [success |-> FALSE, message |-> "No cards left in deck", H |-> H]
  ELSE LET H1 == [H EXCEPT !.gs[g].deck = popped(@),
                           !.player[pid] = addCard(@, dealCard(H.gs[g].deck))]
       IN IF H1.player[pid].status = "bust"
          THEN [success |-> TRUE, message |-> "Player busted", H |-> H1]
          ELSE IF H1.player[pid].handValue = 21
          THEN [success |-> TRUE,
                message |-> "Player reached 21 and stands automatically",
                H |-> [H1 EXCEPT !.player[pid] = setStatus(@, "stand"),
                                 !.gs[g] = nextPlayer(@)]]
          ELSE [success |-> TRUE, message |-> "Card dealt", H |-> H1]

\* a hit that, finding the deck empty, ends the player's turn
processHit_emptyEndsTurn(H, g, pid) ==
  IF isDeckEmpty(H.gs[g].deck)
  THEN [success |-> FALSE, message |-> "No cards left in deck",
        H |-> [H EXCEPT !.player[pid] = setStatus(@, "stand"),
                        !.gs[g] = nextPlayer(@)]]
  ELSE LET H1 == [H EXCEPT !.gs[g].deck = popped(@),
                           !.player[pid] = addCard(@, dealCard(H.gs[g].deck))]
       IN IF H1.player[pid].status = "bust"
          THEN [success |-> TRUE, message |-> "Player busted",
                H |-> [H1 EXCEPT !.gs[g] = nextPlayer(@)]]
          ELSE IF H1.player[pid].handValue = 21
          THEN [success |-> TRUE,
                message |-> "Player reached 21 and stands automatically",
                H |-> [H1 EXCEPT !.player[pid] = setStatus(@, "stand"),
                                 !.gs[g] = nextPlayer(@)]]
          ELSE [success |-> TRUE, message |-> "Card dealt", H |-> H1]

processHit(H, g, pid) ==
  IF isDeckEmpty(H.gs[g].deck)
  THEN [success |-> FALSE, message |-> "No cards left in deck", H |-> H]
  ELSE LET H1 == [H EXCEPT !.gs[g].deck = popped(@),
                           !.player[pid] = addCard(@, dealCard(H.gs[g].deck))]
       IN IF H1.player[pid].status = "bust"
          THEN [success |-> TRUE, message |-> "Player busted",
                H |-> [H1 EXCEPT !.gs[g] = nextPlayer(@)]]
          ELSE IF H1.player[pid].handValue = 21
          THEN [success |-> TRUE,
                message |-> "Player reached 21 and stands automatically",
                H |-> [H1 EXCEPT !.player[pid] = setStatus(@, "stand"),
                                 !.gs[g] = nextPlayer(@)]]
          ELSE [success |-> TRUE, message |-> "Card dealt", H |-> H1]

processStand(H, g, pid) ==
  [success |-> TRUE, message |-> "Player stands",
   H |-> [H EXCEPT !.player[pid] = setStatus(@, "stand"), !.gs[g] = nextPlayer(@)]]

\* processPlayerAction: the answer, the heap and the locks it leaves
processPlayerAction(H, pending, g, playerId, action, elapsed) ==
  LET roomId == H.gs[g].roomId
      conflictCheck == checkActionConflict(pending, roomId, elapsed)
      locked == lockAction(pending, roomId, playerId)
      validation == validateAction(H, g, playerId, action)
      result == IF normalize(action) = "hit" THEN processHit(H, g, playerId)
                ELSE processStand(H, g, playerId)
  IN IF ~conflictCheck.allowed
     THEN [success |-> FALSE, message |-> conflictCheck.reason, H |-> H,
           pending |-> pending]
     ELSE IF ~validation.valid
     THEN [success |-> FALSE, message |-> validation.reason, H |-> H,
           pending |-> unlockAction(locked, roomId)]
     ELSE [success |-> result.success, message |-> result.message, H |-> result.H,
           pending |-> unlockAction(locked, roomId)]

shouldDealerPlay(H, g) == areAllPlayersDone(H, g)

shouldHit(handValue) == handValue < hitThreshold

shouldStartDealerTurn(H, g) == areAllPlayersDone(H, g) /\ H.gs[g].status = "playing"

\* a classification that has no push
playerResult_noPush(H, g, pid) ==
  LET p == H.player[pid]
      isWinner == pid \in Range(H.gs[g].winners)
  IN IF p.status = "bust" THEN "lose"
     ELSE IF p.status = "blackjack" /\ isWinner THEN "blackjack"
     ELSE IF isWinner THEN "win"
     ELSE "lose"

\* the result GameEngine.determineWinners records for one player
playerResult(H, g, pid) ==
  LET p == H.player[pid]
      isWinner == pid \in Range(H.gs[g].winners)
  IN IF p.status = "bust" THEN "lose"
     ELSE IF p.status = "blackjack" /\ isWinner THEN "blackjack"
     ELSE IF isWinner THEN "win"
     ELSE IF p.handValue = H.gs[g].dealer.handValue /\ H.gs[g].dealer.status # "bust"
     THEN "push"
     ELSE "lose"

\* the forEach of GameEngine.determineWinners over players[1..n]:
\* the heap and the payouts array after it
RECURSIVE payoutLoop(_, _, _)
payoutLoop(H, g, n) ==
  IF n = 0 THEN [H |-> H, payouts |-> <<>>]
  ELSE LET before == payoutLoop(H, g, n - 1)
           pid == H.gs[g].players[n]
           p == before.H.player[pid]
           result == playerResult(before.H, g, pid)
           payoutAmount == calculatePayout(p.currentBet, result)
           actualWinnings == IF result = "lose" THEN 0 - p.currentBet
                             ELSE IF result = "push" THEN 0
                             ELSE payoutAmount - p.currentBet
           paid == updateBalance(p, payoutAmount)
       IN IF p.currentBet > 0
          THEN [H |-> [before.H EXCEPT !.player[pid] = paid],
                payouts |-> Append(before.payouts,
                                   [playerId |-> pid, betAmount |-> paid.currentBet,
                                    outcome |-> result, payout |-> actualWinnings,
                                    newBalance |-> paid.balance])]
          ELSE before

GameEngine_determineWinners(H, g) ==
  LET ended == GameState_endGame(H, g)
      loop == payoutLoop(ended, g, Len(ended.gs[g].players))
  IN [loop.H EXCEPT !.gs[g].payouts = loop.payouts]

\* GameEngine.placeBet: the answer and the heap
GameEngine_placeBet(H, g, playerId, amount) ==
  IF H.gs[g].status # "betting"
  THEN [success |-> FALSE, reason |-> "Game is not in betting phase", H |-> H]
  ELSE IF GameState_getPlayer(H.gs[g], playerId) = NoPlayer
  THEN [success |-> FALSE, reason |-> "Player not found", H |-> H]
  ELSE IF H.player[playerId].hasBet
  THEN [success |-> FALSE, reason |-> "Player has already placed a bet", H |-> H]
  ELSE LET result == BettingManager_placeBet(H.player[playerId], amount)
       IN [success |-> result.success, reason |-> result.reason,
           H |-> [H EXCEPT !.player[playerId] = result.p]]

(***************************************************************************)
(* RoomManager.  M is the playerRoomMap.                                   *)
(***************************************************************************)
\* a registry without a limit
createRoom_unbounded(H, roomId) ==
  IF roomId \in DOMAIN H.room THEN [room |-> roomId, H |-> H]
  ELSE [room |-> roomId, H |-> NewRoom(H, roomId, MaxPlayersPerRoom)]

createRoom(H, roomId) ==
  IF roomId \in DOMAIN H.room THEN [room |-> roomId, H |-> H]
  ELSE IF Cardinality(DOMAIN H.room) >= maxRooms THEN [room |-> NoRoom, H |-> H]
  ELSE [room |-> roomId, H |-> NewRoom(H, roomId, MaxPlayersPerRoom)]

\* a seating that does not look whether the player sits elsewhere
addPlayerToRoom_anywhere(H, M, roomId, pid, obj) ==
  IF roomId \notin DOMAIN H.room
  THEN [success |-> FALSE, message |-> "Room not found", H |-> H, M |-> M]
  ELSE LET added == Room_addPlayer(H, roomId, pid, initializePlayerBalance(obj))
       IN IF added.ok
          THEN [success |-> TRUE, message |-> "Player added to room",
                H |-> added.H, M |-> Put(M, pid, roomId)]
          ELSE [success |-> FALSE,
                message |-> "Failed to add player to room (room full or game in progress)",
                H |-> H, M |-> M]

\* addPlayerToRoom of the Player object obj with id pid.  The reconnection
\* branch reads the const room before its declaration: a ReferenceError.
addPlayerToRoom(H, M, roomId, pid, obj) ==
  IF pid \in DOMAIN M
  THEN IF M[pid] # roomId
       THEN [success |-> FALSE, message |-> "Player is already in another room",
             H |-> H, M |-> M]
       ELSE [success |-> FALSE, message |-> "ReferenceError", H |-> H, M |-> M]
  ELSE IF roomId \notin DOMAIN H.room
  THEN [success |-> FALSE, message |-> "Room not found", H |-> H, M |-> M]
  ELSE LET withBalance == IF obj.balance = 0 THEN initializePlayerBalance(obj) ELSE obj
           added == Room_addPlayer(H, roomId, pid, withBalance)
       IN IF added.ok
          THEN [success |-> TRUE, message |-> "Player added to room",
                H |-> added.H, M |-> Put(M, pid, roomId)]
          ELSE [success |-> FALSE,
                message |-> "Failed to add player to room (room full or game in progress)",
                H |-> H, M |-> M]

removePlayerFromRoom(H, M, roomId, playerId) ==
  IF roomId \notin DOMAIN H.room THEN [removed |-> FALSE, H |-> H, M |-> M]
  ELSE LET r == Room_removePlayer(H, roomId, playerId)
       IN IF r.ok THEN [removed |-> TRUE, H |-> r.H, M |-> Del(M, playerId)]
          ELSE [removed |-> FALSE, H |-> H, M |-> M]

removePlayerFromAnyRoom(H, M, playerId) ==
  IF playerId \in DOMAIN M THEN removePlayerFromRoom(H, M, M[playerId], playerId)
  ELSE [removed |-> FALSE, H |-> H, M |-> M]

deleteRoom(H, M, roomId) ==
  IF roomId \notin DOMAIN H.room THEN [deleted |-> FALSE, H |-> H, M |-> M]
  ELSE [deleted |-> TRUE,
        H |-> [H EXCEPT !.room = Del(H.room, roomId)],
        M |-> [p \in (DOMAIN M) \ Range(Room_getPlayers(H, roomId)) |-> M[p]]]

(***************************************************************************)
(* State                                                                   *)
(***************************************************************************)
Heap == [room |-> room, gs |-> gs, player |-> player]

Empty == [x \in {} |-> x]

\* what a handler emits to the socket that sent the event
Answer(success, code, message) ==
  [success |-> success, code |-> code, message |-> message]

\* what a handler or a timer callback leaves: the heap H, playerRoomMap M,
\* the sockets S, the tasks T, pendingActions P, the rounds counted and the
\* answer
Out(H, M, S, T, P, n, res) ==
  [H |-> H, M |-> M, S |-> S, T |-> T, P |-> P, n |-> n, res |-> res]

Same(res) == Out(Heap, playerRoomMap, socketRoom, tasks, pendingActions, rounds, res)

DealerTask(roomId, g) ==
  [kind |-> "dealer", room |-> roomId, gs |-> g, pc |-> "delay", drawn |-> FALSE]

ResetTask(roomId) ==
  [kind |-> "reset", room |-> roomId, gs |-> 0, pc |-> "timer", drawn |-> FALSE]

RemoveAt(s, i) == [j \in 1 .. (Len(s) - 1) |-> IF j < i THEN s[j] ELSE s[j + 1]]

\* the GameState objects something still refers to: a room, or a dealer turn
LiveGs(H, T) ==
  {H.room[r].gs : r \in DOMAIN H.room}
    \cup {T[i].gs : i \in {j \in 1 .. Len(T) : T[j].kind = "dealer"}}

\* The heap without its garbage: the GameState and Player objects nothing
\* refers to any more.
Collected(H, T) ==
  LET live == LiveGs(H, T)
      livePlayers == UNION {Range(H.gs[g].players) : g \in live}
  IN [room |-> H.room,
      gs |-> [g \in live |-> H.gs[g]],
      player |-> [p \in livePlayers |-> H.player[p]]]

\* the state after a handler or callback that leaves out
Apply(out) ==
  LET H == Collected(out.H, out.T)
  IN /\ room' = H.room
     /\ gs' = H.gs
     /\ player' = H.player
     /\ playerRoomMap' = out.M
     /\ socketRoom' = out.S
     /\ tasks' = out.T
     /\ pendingActions' = out.P
     /\ rounds' = out.n

\* the same, within the bounds on rounds and pending tasks
Commit(out) ==
  /\ out.n <= MaxRounds
  /\ Len(out.T) <= MaxTasks
  /\ Apply(out)

\* A Player object that left its room lives on only in the players arrays of
\* GameStates that are no room's current one; when the id joins again as a
\* new object, those arrays are taken to hold it no longer.
dropDead(H, pid) ==
  LET current == {H.room[r].gs : r \in DOMAIN H.room}
  IN [H EXCEPT !.gs = [g \in DOMAIN H.gs |->
                         IF g \in current THEN H.gs[g]
                         ELSE [H.gs[g] EXCEPT !.players =
                                 SelectSeq(@, LAMBDA x : x # pid)]]]

\* initializeDefaultRooms: createRoom for each of the ids
RECURSIVE initializeDefaultRooms(_)
initializeDefaultRooms(ids) ==
  IF ids = {} THEN [room |-> Empty, gs |-> Empty, player |-> Empty]
  ELSE LET r == CHOOSE x \in ids : TRUE
       IN createRoom(initializeDefaultRooms(ids \ {r}), r).H

\* new WebSocketHandler(io): the default rooms, nobody seated
Init ==
  LET H == initializeDefaultRooms(RoomIds)
  IN /\ room = H.room
     /\ gs = H.gs
     /\ player = H.player
     /\ playerRoomMap = Empty
     /\ socketRoom = Empty
     /\ tasks = <<>>
     /\ pendingActions = Empty
     /\ rounds = 0

(***************************************************************************)
(* WebSocketHandler: what each event handler leaves.  The socket joined as *)
(* player p is the socket of p; socketRoom[p] is its roomId.               *)
(***************************************************************************)
\* the bets tried; the actions; the ages of a lock, in ms
BetAmounts == {Number(Dollars(0)), Number(Dollars(5)), Number(Dollars(3000)), NaN}
Actions == {"hit", "stand", "double"}
Elapsed == {0, actionTimeout}

\* the tasks after playDealerTurnAsync(roomId, gameState) was called
playDealerTurnAsync(T, roomId, g) == Append(T, DealerTask(roomId, g))

\* join-room sent for player p
handleJoinRoom(r, p) ==
  LET created == createRoom(Heap, r)
      H1 == created.H
      existing == created.room # NoRoom /\ Room_getPlayer(H1, r, p) # NoPlayer
      obj == IF existing THEN [H1.player[p] EXCEPT !.isConnected = TRUE]
             ELSE initializePlayerBalance(NewPlayer)
      H2 == IF existing THEN [H1 EXCEPT !.player[p] = obj] ELSE H1
      result == addPlayerToRoom(IF existing THEN H2 ELSE dropDead(H2, p),
                                playerRoomMap, r, p, obj)
  IN IF created.room = NoRoom
     THEN Same(Answer(FALSE, "ROOM_CREATION_FAILED", ""))
     ELSE IF result.message = "ReferenceError"
     THEN [Same(Answer(FALSE, "JOIN_ROOM_ERROR", "")) EXCEPT !.H = H2]
     ELSE IF ~result.success
     THEN [Same(Answer(FALSE, "JOIN_ROOM_FAILED", result.message)) EXCEPT !.H = H2]
     ELSE Out(result.H, result.M, Put(socketRoom, p, r), tasks, pendingActions,
              rounds, Answer(TRUE, "", result.message))

\* the socket of p disconnects
handleDisconnect(p) ==
  LET r == socketRoom[p]
      S == Del(socketRoom, p)
      removed == removePlayerFromRoom(Heap, playerRoomMap, r, p)
      g == removed.H.room[r].gs
      dealer == removed.H.gs[g].status = "playing" /\ shouldDealerPlay(removed.H, g)
  IN IF r \notin DOMAIN room \/ ~removed.removed
     THEN [Same(Answer(FALSE, "", "")) EXCEPT !.S = S]
     ELSE Out(removed.H, removed.M, S,
              IF dealer THEN playDealerTurnAsync(tasks, r, g) ELSE tasks,
              pendingActions, rounds, Answer(TRUE, "", ""))

\* start-betting sent by the socket of p
handleStartBetting(r, p) ==
  LET started == Room_startBettingPhase(Heap, r)
      code == IF p \notin DOMAIN socketRoom \/ socketRoom[p] # r
              THEN "UNAUTHORIZED_BETTING"
              ELSE IF r \notin DOMAIN room THEN "ROOM_NOT_FOUND"
              ELSE IF getPlayerCount(Heap, r) = 0 THEN "NO_PLAYERS"
              ELSE IF room[r].isGameInProgress THEN "GAME_ALREADY_IN_PROGRESS"
              ELSE IF ~started.ok THEN "BETTING_START_FAILED"
              ELSE ""
  IN IF code # "" THEN Same(Answer(FALSE, code, ""))
     ELSE [Same(Answer(TRUE, "", "")) EXCEPT !.H = started.H]

\* place-bet sent by the socket of p; k: the outcome of the shuffle if the
\* bet starts the round.  After the deal the handler starts the dealer's
\* turn only when currentPlayerIndex is -1.
handlePlaceBet(r, p, amount, k) ==
  LET g == room[r].gs
      result == GameEngine_placeBet(Heap, g, p, amount)
      code == IF notFiniteNumber(amount) THEN "INVALID_BET_AMOUNT"
              ELSE IF p \notin DOMAIN socketRoom THEN "AUTHENTICATION_ERROR"
              ELSE IF socketRoom[p] # r THEN "ROOM_MISMATCH"
              ELSE IF r \notin DOMAIN room THEN "ROOM_NOT_FOUND"
              ELSE IF result.reason = "RangeError" THEN "PLACE_BET_ERROR"
              ELSE ""
      gameStarted == Room_startGame(result.H, r, k)
      dealer == gameStarted.H.gs[g].currentPlayerIndex = -1
  IN IF code # "" THEN Same(Answer(FALSE, code, ""))
     ELSE IF ~result.success THEN Same(Answer(FALSE, "", result.reason))
     ELSE IF ~allPlayersHaveBet(result.H, r) \/ ~gameStarted.ok
     THEN [Same(Answer(TRUE, "", "")) EXCEPT !.H = result.H]
     ELSE Out(gameStarted.H, playerRoomMap, socketRoom,
              IF dealer THEN playDealerTurnAsync(tasks, r, g) ELSE tasks,
              pendingActions, rounds + 1, Answer(TRUE, "", ""))

\* start-game sent by the socket of p; k: the outcome of the shuffle
handleStartGame(r, p, k) ==
  LET started == Room_startGame(Heap, r, k)
      code == IF p \notin DOMAIN socketRoom \/ socketRoom[p] # r
              THEN "UNAUTHORIZED_START"
              ELSE IF r \notin DOMAIN room THEN "ROOM_NOT_FOUND"
              ELSE IF getPlayerCount(Heap, r) = 0 THEN "NO_PLAYERS"
              ELSE IF room[r].isGameInProgress THEN "GAME_ALREADY_IN_PROGRESS"
              ELSE IF ~started.ok THEN "GAME_START_FAILED"
              ELSE ""
  IN IF code # "" THEN Same(Answer(FALSE, code, ""))
     ELSE [Same(Answer(TRUE, "", "")) EXCEPT !.H = started.H, !.n = rounds + 1]

\* player-action for player p, sent by the socket of p or by a socket that
\* has not joined; elapsed: the age of a lock found on the room
handlePlayerAction(r, p, action, elapsed) ==
  LET g == room[r].gs
      validation == validateAction(Heap, g, p, action)
      result == processPlayerAction(Heap, pendingActions, g, p, action, elapsed)
      dealer == shouldDealerPlay(result.H, g)
  IN IF p \in DOMAIN socketRoom /\ socketRoom[p] # r
     THEN Same(Answer(FALSE, "ROOM_MISMATCH", ""))
     ELSE IF r \notin DOMAIN room THEN Same(Answer(FALSE, "ROOM_NOT_FOUND", ""))
     ELSE IF ~validation.valid
     THEN Same(Answer(FALSE, "ACTION_VALIDATION_FAILED", validation.reason))
     ELSE IF ~result.success
     THEN [Same(Answer(FALSE, "ACTION_PROCESSING_FAILED", result.message))
             EXCEPT !.H = result.H, !.P = result.pending]
     ELSE Out(result.H, playerRoomMap, socketRoom,
              IF dealer THEN playDealerTurnAsync(tasks, r, g) ELSE tasks,
              result.pending, rounds, Answer(TRUE, "", result.message))

\* reset-balance sent by the socket of p
handleResetBalance(r, p) ==
  LET code == IF p \notin DOMAIN socketRoom THEN "AUTHENTICATION_ERROR"
              ELSE IF r \notin DOMAIN room THEN "ROOM_NOT_FOUND"
              ELSE IF Room_getPlayer(Heap, r, p) = NoPlayer THEN "PLAYER_NOT_FOUND"
              ELSE ""
  IN IF code # "" THEN Same(Answer(FALSE, code, ""))
     ELSE [Same(Answer(TRUE, "", "")) EXCEPT !.H.player[p] = resetBalance(@)]

\* serializeGameState: what is sent as gameState; socket.io encodes a Card
\* object by its fields suit, rank, value and hidden.  The names and the
\* times are left out.
serializeGameState(H, g) ==
  LET G == H.gs[g]
  IN [roomId |-> G.roomId,
      status |-> G.status,
      players |-> [i \in 1 .. Len(G.players) |->
                     [id |-> G.players[i],
                      hand |-> H.player[G.players[i]].currentHand,
                      handValue |-> H.player[G.players[i]].handValue,
                      status |-> H.player[G.players[i]].status,
                      isConnected |-> H.player[G.players[i]].isConnected]],
      dealer |-> [hand |-> G.dealer.hand, handValue |-> G.dealer.handValue,
                  status |-> G.dealer.status],
      currentPlayerIndex |-> G.currentPlayerIndex,
      currentPlayer |-> getCurrentPlayer(G),
      winners |-> G.winners]

(***************************************************************************)
(* playDealerTurnAsync: what each stretch between two timer awaits leaves. *)
(* i is the place of the call among the pending tasks.                     *)
(***************************************************************************)
Timer == Answer(TRUE, "", "")

\* the rest of DealerAI.playDealerTurn after its loop
dealerStands(G) ==
  IF G.dealer.handValue <= 21 THEN [G EXCEPT !.dealer.status = "stand"] ELSE G

\* from gameEngine.determineWinners to the setTimeout of the reset
settle(H, T, i) ==
  LET t == T[i]
      H1 == GameEngine_determineWinners(H, t.gs)
  IN IF t.room \in DOMAIN H1.room
     THEN [Same(Timer) EXCEPT !.H = Room_endGame(H1, t.room),
                              !.T = [T EXCEPT ![i] = ResetTask(t.room)]]
     ELSE [Same(Timer) EXCEPT !.H = H1, !.T = RemoveAt(T, i)]

\* the catch block: room.resetGame() if the room is still there
recover(i) ==
  [Same(Timer) EXCEPT
     !.H = IF tasks[i].room \in DOMAIN room THEN Room_resetGame(Heap, tasks[i].room)
           ELSE Heap,
     !.T = RemoveAt(tasks, i)]

\* the 1000 ms delay is over: gameEngine.playDealerTurn up to the first await
\* of the loop, or through settlement when the dealer draws nothing
dealerStart(i) ==
  LET t == tasks[i]
      revealed == [Heap EXCEPT !.gs[t.gs] = revealDealerCard(@)]
      stood == [revealed EXCEPT !.gs[t.gs] = dealerStands(@)]
  IN IF ~shouldStartDealerTurn(Heap, t.gs) THEN recover(i)
     ELSE IF shouldHit(revealed.gs[t.gs].dealer.handValue)
     THEN [Same(Timer) EXCEPT !.H = revealed, !.T[i].pc = "draw"]
     ELSE settle(stood, tasks, i)

\* the dealDelay is over: one pop of the loop, up to the next await
dealerDraw(i) ==
  LET t == tasks[i]
      deck == gs[t.gs].deck
      stood == [Heap EXCEPT !.gs[t.gs] = dealerStands(@)]
      H1 == [Heap EXCEPT !.gs[t.gs] =
               addCardToDealer([@ EXCEPT !.deck = popped(deck)], dealCard(deck))]
      value == H1.gs[t.gs].dealer.handValue
      H2 == IF value > 21 THEN [H1 EXCEPT !.gs[t.gs].dealer.status = "bust"]
            ELSE IF shouldHit(value) THEN H1
            ELSE [H1 EXCEPT !.gs[t.gs] = dealerStands(@)]
  IN IF isDeckEmpty(deck)
     THEN IF t.drawn THEN [Same(Timer) EXCEPT !.H = stood, !.T[i].pc = "emit"]
          ELSE settle(stood, tasks, i)
     ELSE [Same(Timer) EXCEPT
             !.H = H2,
             !.T[i].pc = IF value <= 21 /\ shouldHit(value) THEN "draw" ELSE "emit",
             !.T[i].drawn = TRUE]

\* the 800 ms waits after the dealer-action messages are over: settlement
dealerEmit(i) == settle(Heap, tasks, i)

\* the 5000 ms timer set after settlement fires
resetTimer(i) == recover(i)

(***************************************************************************)
(* The actions: the events of the sockets and the timers                   *)
(***************************************************************************)
JoinRoom(r, p) == Commit(handleJoinRoom(r, p))

Disconnect(p) == p \in DOMAIN socketRoom /\ Commit(handleDisconnect(p))

StartBetting(r, p) == rounds < MaxRounds /\ Commit(handleStartBetting(r, p))

PlaceBet(r, p, amount) == \E k \in Shuffles : Commit(handlePlaceBet(r, p, amount, k))

StartGame(r, p) == \E k \in Shuffles : Commit(handleStartGame(r, p, k))

PlayerAction(r, p, action) ==
  \E elapsed \in Elapsed : Commit(handlePlayerAction(r, p, action, elapsed))

ResetBalance(r, p) == Commit(handleResetBalance(r, p))

DealerStart(i) ==
  /\ i \in 1 .. Len(tasks)
  /\ tasks[i].kind = "dealer" /\ tasks[i].pc = "delay"
  /\ Commit(dealerStart(i))

DealerDraw(i) ==
  /\ i \in 1 .. Len(tasks)
  /\ tasks[i].kind = "dealer" /\ tasks[i].pc = "draw"
  /\ Commit(dealerDraw(i))

DealerEmit(i) ==
  /\ i \in 1 .. Len(tasks)
  /\ tasks[i].kind = "dealer" /\ tasks[i].pc = "emit"
  /\ Commit(dealerEmit(i))

ResetTimer(i) ==
  /\ i \in 1 .. Len(tasks)
  /\ tasks[i].kind = "reset"
  /\ Commit(resetTimer(i))

\* the game in the rooms GameRooms with the players GamePlayers
Next ==
  \/ \E r \in GameRooms, p \in GamePlayers : JoinRoom(r, p)
  \/ \E p \in GamePlayers : Disconnect(p)
  \/ \E r \in GameRooms, p \in GamePlayers : StartBetting(r, p)
  \/ \E r \in GameRooms, p \in GamePlayers, amount \in BetAmounts : PlaceBet(r, p, amount)
  \/ \E r \in GameRooms, p \in GamePlayers : StartGame(r, p)
  \/ \E r \in GameRooms, p \in GamePlayers, action \in Actions : PlayerAction(r, p, action)
  \/ \E r \in GameRooms, p \in GamePlayers : ResetBalance(r, p)
  \/ \E i \in 1 .. MaxTasks : DealerStart(i)
  \/ \E i \in 1 .. MaxTasks : DealerDraw(i)
  \/ \E i \in 1 .. MaxTasks : DealerEmit(i)
  \/ \E i \in 1 .. MaxTasks : ResetTimer(i)

Spec == Init /\ [][Next]_vars

(***************************************************************************)
(* What the properties speak of                                            *)
(***************************************************************************)
\* the phase of room r, the ids seated in it, whether all of them have bet
Status(r) == gs[room[r].gs].status
Seated(r) == Range(gs[room[r].gs].players)
AllBet(r) == Seated(r) # {} /\ \A p \in Seated(r) : player[p].hasBet
\* a bet of a player seated in r was accepted in this step
BetAccepted(r) ==
  \E p \in Seated(r) \cap Seated(r)' : ~player[p].hasBet /\ player'[p].hasBet

(***************************************************************************)
(* C1                                                                      *)
(***************************************************************************)
\* C1, as amended: whatever joins, leaves and bets are interleaved, a step
\* takes a room to the playing phase only if every player seated after it
\* has hasBet (never a strict subset, never an empty room), and every step
\* in which a bet is accepted and after which every seated player has hasBet
\* does take the room from betting to playing.
C1_RoundStartsOnLastBet ==
  [][\A r \in GameRooms :
       /\ (Status(r) # "playing" /\ Status(r)' = "playing") => AllBet(r)'
       /\ (Status(r) = "betting" /\ BetAccepted(r) /\ AllBet(r)')
            => Status(r)' = "playing"]_vars

\* C1 witness: the second bet of two seated players has started the round
C1_Witness ==
  \E r \in GameRooms :
    Status(r) = "playing" /\ Cardinality(Seated(r)) = 2 /\ AllBet(r) /\ tasks = <<>>

\* C1 as stated: a step from the betting phase ends in the playing phase if
\* and only if every player seated after it has hasBet.
C1_Original ==
  [][\A r \in GameRooms :
       Status(r) = "betting" => (Status(r)' = "playing" <=> AllBet(r)')]_vars

(***************************************************************************)
(* C2                                                                      *)
(***************************************************************************)
\* the player currentPlayerIndex designates in the GameState of room r
Current(r) == getCurrentPlayer(gs[room[r].gs])

\* C2: in every reachable state and for every player id, action and lock
\* age, processPlayerAction on the room's GameState answers success only if
\* the room is in the playing phase, the player is the one
\* currentPlayerIndex designates, and that player's status is 'playing'
\* with isConnected; in every other case it answers success = false.
C2_ActionOnlyInTurn ==
  \A r \in GameRooms, p \in PlayerIds, action \in Actions, elapsed \in Elapsed :
    processPlayerAction(Heap, pendingActions, room[r].gs, p, action, elapsed).success
      => /\ Status(r) = "playing"
         /\ gs[room[r].gs].currentPlayerIndex \in 0 .. (Len(gs[room[r].gs].players) - 1)
         /\ gs[room[r].gs].players[gs[room[r].gs].currentPlayerIndex + 1] = p
         /\ player[p].status = "playing"
         /\ player[p].isConnected

\* C2 witness: two players are in the round, the first has hit and holds
\* three cards, still has the turn, and the second waits with status
\* 'playing'
C2_Witness ==
  \E r \in GameRooms :
    /\ Status(r) = "playing"
    /\ Len(gs[room[r].gs].players) = 2
    /\ gs[room[r].gs].currentPlayerIndex = 0
    /\ Len(player[gs[room[r].gs].players[1]].currentHand) = 3
    /\ player[gs[room[r].gs].players[1]].status = "playing"
    /\ player[gs[room[r].gs].players[2]].status = "playing"

(***************************************************************************)
(* C8                                                                      *)
(***************************************************************************)
\* player p seated in room r took one card in this step: a hit succeeded
Hit(r, p) ==
  /\ Status(r) = "playing"
  /\ room'[r].gs = room[r].gs
  /\ p \in Seated(r) \cap Seated(r)'
  /\ Len(player'[p].currentHand) = Len(player[p].currentHand) + 1

\* C8: a hit that takes the hand above 21 sets the status to 'bust' and
\* moves currentPlayerIndex on by one in the same step; a hit that makes it
\* exactly 21 sets the status to 'stand' and moves it on by one; any other
\* hit leaves the status 'playing' and currentPlayerIndex where it was.
C8_HitOutcome ==
  [][\A r \in GameRooms, p \in GamePlayers :
       Hit(r, p) =>
         LET value == player'[p].handValue
             before == gs[room[r].gs].currentPlayerIndex
             after == gs'[room[r].gs].currentPlayerIndex
         IN /\ value > 21 => player'[p].status = "bust" /\ after = before + 1
            /\ value = 21 => player'[p].status = "stand" /\ after = before + 1
            /\ value < 21 => player'[p].status = "playing" /\ after = before]_vars

\* C8 witness: the first of two players went bust on the third card and the
\* turn is with the second
C8_Witness ==
  \E r \in GameRooms :
    /\ Status(r) = "playing"
    /\ Len(gs[room[r].gs].players) = 2
    /\ gs[room[r].gs].currentPlayerIndex = 1
    /\ player[gs[room[r].gs].players[1]].status = "bust"
    /\ Len(player[gs[room[r].gs].players[1]].currentHand) = 3

(***************************************************************************)
(* Settlement: C4, C5, C6, C7                                              *)
(***************************************************************************)
\* this step is the settlement of the round of GameState g: the dealer turn
\* i started on g ends with determineWinners while g is being played
Settles(g) ==
  /\ g \in DOMAIN gs /\ g \in DOMAIN gs'
  /\ gs[g].status = "playing" /\ gs'[g].status = "finished"
  /\ \E i \in 1 .. Len(tasks) :
       /\ tasks[i].kind = "dealer" /\ tasks[i].gs = g
       /\ \/ tasks' = [tasks EXCEPT ![i] = ResetTask(tasks[i].room)]
          \/ tasks' = RemoveAt(tasks, i)

\* the players of g that hold a wager
Wagering(g) == {pid \in Range(gs[g].players) : player[pid].currentBet > 0}

\* the settlement records g holds for player pid
Records(G, pid) == {rec \in Range(G.payouts) : rec.playerId = pid}

\* C4: at settlement no player whose status is 'bust' is put in winners, and
\* every bust player with a wager gets a record, with outcome 'lose',
\* whatever the dealer's hand.
C4_BustNeverWins ==
  [][\A g \in DOMAIN gs :
       Settles(g) =>
         \A pid \in Range(gs[g].players) :
           player[pid].status = "bust" =>
             /\ pid \notin Range(gs'[g].winners)
             /\ pid \in Wagering(g) =>
                  /\ Records(gs'[g], pid) # {}
                  /\ \A rec \in Records(gs'[g], pid) : rec.outcome = "lose"]_vars

\* C4 witness: a round is settled in which the dealer went bust and a player
\* who went bust has the outcome 'lose'
C4_Witness ==
  \E r \in GameRooms :
    /\ Status(r) = "finished"
    /\ gs[room[r].gs].dealer.handValue > 21
    /\ \E pid \in Seated(r) :
         /\ player[pid].status = "bust"
         /\ pid \notin Range(gs[room[r].gs].winners)
         /\ \E rec \in Records(gs[room[r].gs], pid) : rec.outcome = "lose"

\* the outcome C5 gives a player who is not bust: v the player's hand
\* value, d the dealer's final value
Expected(status, v, d) ==
  IF d > 21 \/ v > d THEN (IF status = "blackjack" THEN "blackjack" ELSE "win")
  ELSE IF v = d THEN "push"
  ELSE "lose"

\* C5: at settlement every player who is not bust and holds a wager gets
\* one record, whose outcome is win if the dealer is bust or the player's
\* value is higher than the dealer's final value (blackjack if the player's
\* status is 'blackjack'), push if the values are equal, lose if lower.
C5_OutcomeByComparison ==
  [][\A g \in DOMAIN gs :
       Settles(g) =>
         \A pid \in Wagering(g) :
           player[pid].status # "bust" =>
             /\ Cardinality(Records(gs'[g], pid)) = 1
             /\ \A rec \in Records(gs'[g], pid) :
                  rec.outcome = Expected(player[pid].status, player[pid].handValue,
                                         gs'[g].dealer.handValue)]_vars

\* C5 witness: a settled round with two players whose outcomes differ
C5_Witness ==
  \E r \in GameRooms :
    /\ Status(r) = "finished"
    /\ \E p, q \in Seated(r) :
         \E rp \in Records(gs[room[r].gs], p), rq \in Records(gs[room[r].gs], q) :
           rp.outcome = "win" /\ rq.outcome \in {"lose", "push"}

C7_RecordCarriesWager ==
  [][\A g \in DOMAIN gs :
       Settles(g) =>
         \A pid \in Wagering(g) :
           /\ Records(gs'[g], pid) # {}
           /\ \A rec \in Records(gs'[g], pid) :
                /\ rec.betAmount = player[pid].currentBet
                /\ rec.newBalance = player'[pid].balance]_vars

(***************************************************************************)
(* C9                                                                      *)
(***************************************************************************)
\* a dealer turn started on GameState g is pending
DealerTurnOn(g) ==
  \E i \in 1 .. Len(tasks) : tasks[i].kind = "dealer" /\ tasks[i].gs = g

\* C9: when the deal has left every seated player with a two-card 21, the
\* dealer's turn is under way for as long as the round is being played, so
\* that the round goes on to settlement without a player's command.
C9_DealerFollowsDeal ==
  \A r \in GameRooms :
    (/\ Status(r) = "playing"
     /\ Seated(r) # {}
     /\ \A p \in Seated(r) : player[p].status = "blackjack")
      => DealerTurnOn(room[r].gs)

(***************************************************************************)
(* The registry alone: the calls of RoomManager in any order, C3           *)
(***************************************************************************)
CreateRoom(r) ==
  Commit([Same(Answer(createRoom(Heap, r).room # NoRoom, "", ""))
            EXCEPT !.H = createRoom(Heap, r).H])

AddPlayerToRoom(r, p) ==
  LET result == addPlayerToRoom(Heap, playerRoomMap, r, p, NewPlayer)
  IN Commit([Same(Answer(result.success, "", result.message))
               EXCEPT !.H = result.H, !.M = result.M])

RemovePlayerFromRoom(r, p) ==
  LET result == removePlayerFromRoom(Heap, playerRoomMap, r, p)
  IN Commit([Same(Answer(result.removed, "", ""))
               EXCEPT !.H = result.H, !.M = result.M])

RemovePlayerFromAnyRoom(p) ==
  LET result == removePlayerFromAnyRoom(Heap, playerRoomMap, p)
  IN Commit([Same(Answer(result.removed, "", ""))
               EXCEPT !.H = result.H, !.M = result.M])

DeleteRoom(r) ==
  LET result == deleteRoom(Heap, playerRoomMap, r)
  IN Commit([Same(Answer(result.deleted, "", ""))
               EXCEPT !.H = result.H, !.M = result.M])

NextRooms ==
  \/ \E r \in RoomIds : CreateRoom(r)
  \/ \E r \in RoomIds, p \in PlayerIds : AddPlayerToRoom(r, p)
  \/ \E r \in RoomIds, p \in PlayerIds : RemovePlayerFromRoom(r, p)
  \/ \E p \in PlayerIds : RemovePlayerFromAnyRoom(p)
  \/ \E r \in RoomIds : DeleteRoom(r)

SpecRooms == Init /\ [][NextRooms]_vars

\* the rooms in whose players list p is
RoomsOf(p) == {r \in DOMAIN room : p \in Seated(r)}

\* C3: every player id is in the players list of at most one room, and
\* playerRoomMap maps the id to room r if and only if the id is in the list
\* of r.
C3_OneRoomPerPlayer ==
  \A p \in PlayerIds :
    /\ Cardinality(RoomsOf(p)) <= 1
    /\ \A r \in RoomIds :
         (p \in DOMAIN playerRoomMap /\ playerRoomMap[p] = r) <=> r \in RoomsOf(p)

\* C3 witness: two rooms each seat a player, a third player sits with one
\* of them, and a room has been deleted
C3_Witness ==
  /\ \E r, q \in DOMAIN room : r # q /\ Cardinality(Seated(r)) = 2 /\ Cardinality(Seated(q)) = 1
  /\ DOMAIN room # RoomIds
  /\ DOMAIN playerRoomMap = PlayerIds

(***************************************************************************)
(* The game with a caller that takes and drops the action lock itself, as  *)
(* a command in flight would hold it: C10                                  *)
(***************************************************************************)
LockAction(r, p) ==
  Commit([Same(Timer) EXCEPT !.P = lockAction(pendingActions, r, p)])

UnlockAction(r) ==
  /\ r \in DOMAIN pendingActions
  /\ Commit([Same(Timer) EXCEPT !.P = unlockAction(pendingActions, r)])

NextGuard ==
  \/ Next
  \/ \E r \in GameRooms, p \in GamePlayers : LockAction(r, p)
  \/ \E r \in GameRooms : UnlockAction(r)

SpecGuard == Init /\ [][NextGuard]_vars

\* the ages at which a lock still counts
Fresh == {0, actionTimeout - 1}

DealerRunning(i) ==
  /\ i \in 1 .. Len(tasks)
  /\ tasks[i].kind = "dealer"
  /\ tasks[i].pc # "delay"

\* C11: while the dealer's turn on a room's GameState is running and is the
\* only pending task, a step that is not a step of that turn leaves the
\* room's GameState object, its players array, its status and turn cursor,
\* and every seated player's hand, status, wager and balance as they were.
C11_DealerRunAtomic ==
  [][\A i \in 1 .. Len(tasks) :
       (/\ Len(tasks) = 1
        /\ DealerRunning(i)
        /\ room[tasks[i].room].gs = tasks[i].gs
        /\ Len(tasks') >= i
        /\ tasks'[i] = tasks[i])
         => LET g == tasks[i].gs
                r == tasks[i].room
            IN /\ room'[r].gs = g
               /\ gs'[g].players = gs[g].players
               /\ gs'[g].status = gs[g].status
               /\ gs'[g].currentPlayerIndex = gs[g].currentPlayerIndex
               /\ \A pid \in Range(gs[g].players) : player'[pid] = player[pid]]_vars

\* how many records the payouts of G hold for player pid
RecordCount(G, pid) ==
  Cardinality({i \in 1 .. Len(G.payouts) : G.payouts[i].playerId = pid})

\* the payouts of GameState g before this step
PayoutsBefore(g) == IF g \in DOMAIN gs THEN gs[g].payouts ELSE <<>>

\* determineWinners runs on GameState g in this step: a dealer turn started
\* on g goes over to its reset timer
SettlementRuns(g) ==
  \E i \in 1 .. Len(tasks) :
    /\ tasks[i].kind = "dealer" /\ tasks[i].gs = g
    /\ tasks' = [tasks EXCEPT ![i] = ResetTask(tasks[i].room)]

\* C12: settlement is applied to a round at most once: whatever dealer
\* turns the last action and the disconnects have started on a round,
\* determineWinners runs only on a round that is being played, never on one
\* that is finished and so has been settled already.
C12_SettledAtMostOnce ==
  [][\A g \in DOMAIN gs : SettlementRuns(g) => gs[g].status = "playing"]_vars

\* What does hold of the wagers under every interleaving: a GameState never
\* holds two records for one player; a step that writes a record for a
\* player consumes a wager that stood before it (currentBet > 0 before,
\* currentBet = 0 and hasBet = false after), and a balance rises only in
\* such a step or to the initial balance of a reset or a new Player.
WagerPaidAtMostOnce ==
  [][/\ \A g \in DOMAIN gs' : \A pid \in PlayerIds :
          /\ RecordCount(gs'[g], pid) <= 1
          /\ (gs'[g].payouts # PayoutsBefore(g) /\ RecordCount(gs'[g], pid) = 1)
               => /\ pid \in DOMAIN player
                  /\ player[pid].currentBet > 0
                  /\ player'[pid].currentBet = 0
                  /\ ~player'[pid].hasBet
     /\ \A pid \in DOMAIN player \cap DOMAIN player' :
          player'[pid].balance > player[pid].balance
            => \/ player[pid].currentBet > 0 /\ player'[pid].currentBet = 0
               \/ player'[pid].balance = Dollars(INITIAL_BALANCE)]_vars

(***************************************************************************)
(* C13                                                                     *)
(***************************************************************************)
\* the ages of a lock around the timeout
LockAges == {0, actionTimeout - 1, actionTimeout}

\* C13: a call of processPlayerAction that is not turned away by a fresh
\* lock leaves the room without a lock, whether it succeeds or is rejected;
\* and a lock as old as the timeout has no effect: the call answers and
\* changes the game exactly as it does when no lock is held.
C13_LockNeverWedges ==
  \A r \in GameRooms, p \in PlayerIds, action \in Actions, elapsed \in LockAges :
    LET result == processPlayerAction(Heap, pendingActions, room[r].gs, p,
                                      action, elapsed)
        free == processPlayerAction(Heap, Empty, room[r].gs, p, action, elapsed)
    IN /\ (r \notin DOMAIN pendingActions \/ elapsed >= actionTimeout)
            => r \notin DOMAIN result.pending
       /\ elapsed >= actionTimeout
            => /\ result.success = free.success
               /\ result.message = free.message
               /\ result.H = free.H

\* C13 witness: a lock taken for the player who waits is left on the room,
\* and once it is as old as the timeout the hit of the player whose turn it
\* is succeeds and leaves no lock
C13_Witness ==
  \E r \in GameRooms :
    /\ r \in DOMAIN pendingActions
    /\ Current(r) # NoPlayer
    /\ pendingActions[r].playerId # Current(r)
    /\ LET result == processPlayerAction(Heap, pendingActions, room[r].gs,
                                         Current(r), "hit", actionTimeout)
       IN result.success /\ r \notin DOMAIN result.pending

(***************************************************************************)
(* The dealer's policy: C14                                                *)
(***************************************************************************)
\* the dealer of GameState g, two cards in hand, takes one more in this step
DealerDraws(g) ==
  /\ Len(gs[g].dealer.hand) >= 2
  /\ Len(gs'[g].dealer.hand) = Len(gs[g].dealer.hand) + 1

\* DealerAI.playDealerTurn returns in this step for the dealer turn i: it
\* leaves its loop for the waits before settlement, or settles at once
TurnCompletes(i) ==
  /\ i \in 1 .. Len(tasks)
  /\ tasks[i].kind = "dealer" /\ tasks[i].pc \in {"delay", "draw"}
  /\ Len(tasks') >= i
  /\ \/ tasks'[i] = [tasks[i] EXCEPT !.pc = "emit"]
     \/ tasks'[i] = [tasks[i] EXCEPT !.pc = "emit", !.drawn = TRUE]
     \/ tasks' = [tasks EXCEPT ![i] = ResetTask(tasks[i].room)]

\* C14: the dealer takes a card only when its hand value is below 17; when
\* playDealerTurn returns, the value is at least 17 or the deck is empty,
\* and where the turn waits before settlement the dealer's status is 'bust'
\* if the value is above 21 and 'stand' otherwise.
C14_DealerPolicy ==
  [][/\ \A g \in DOMAIN gs \cap DOMAIN gs' :
          DealerDraws(g) => gs[g].dealer.handValue < 17
     /\ \A i \in 1 .. Len(tasks) :
          (TurnCompletes(i) /\ tasks[i].gs \in DOMAIN gs') =>
            LET dealer == gs'[tasks[i].gs].dealer
            IN /\ dealer.handValue >= 17 \/ isDeckEmpty(gs'[tasks[i].gs].deck)
               /\ tasks'[i].kind = "dealer" =>
                    dealer.status = IF dealer.handValue > 21 THEN "bust" ELSE "stand"]_vars

\* the dealer turns pending on GameState g
TurnsOn(g) == {i \in 1 .. Len(tasks) : tasks[i].kind = "dealer" /\ tasks[i].gs = g}

\* one dealer turn only has been started on the round of g: the round is not
\* settled and one turn is pending on it
OneTurnOn(g) == gs[g].status = "playing" /\ Cardinality(TurnsOn(g)) = 1

\* What does hold: the same policy for a round on which one dealer turn only
\* has been started.
DealerPolicyOfOneTurn ==
  [][/\ \A g \in DOMAIN gs \cap DOMAIN gs' :
          (DealerDraws(g) /\ OneTurnOn(g)) => gs[g].dealer.handValue < 17
     /\ \A i \in 1 .. Len(tasks) :
          (/\ TurnCompletes(i)
           /\ tasks[i].gs \in DOMAIN gs'
           /\ OneTurnOn(tasks[i].gs)) =>
            LET dealer == gs'[tasks[i].gs].dealer
            IN /\ dealer.handValue >= 17 \/ isDeckEmpty(gs'[tasks[i].gs].deck)
               /\ tasks'[i].kind = "dealer" =>
                    dealer.status = IF dealer.handValue > 21 THEN "bust" ELSE "stand"]_vars

(***************************************************************************)
(* C15                                                                     *)
(***************************************************************************)
\* the dealer turn i, its opening delay over, is let in by playDealerTurn in
\* this step: it goes on to draw or settles at once
TurnStarts(i) ==
  /\ i \in 1 .. Len(tasks)
  /\ tasks[i].kind = "dealer" /\ tasks[i].pc = "delay"
  /\ Len(tasks') >= i
  /\ \/ tasks'[i] = [tasks[i] EXCEPT !.pc = "draw"]
     \/ tasks' = [tasks EXCEPT ![i] = ResetTask(tasks[i].room)]

\* every player of GameState g has status stand, bust or blackjack
AllDone(g) ==
  \A pid \in Range(gs[g].players) : player[pid].status \in {"stand", "bust", "blackjack"}

\* C15: a dealer's turn starts only when the status of its room is 'playing'
\* and every seated player's status is stand, bust or blackjack; where
\* playDealerTurn refuses a turn, the dealer's hand and the deck stay as
\* they are.
C15_DealerStartsWhenAllDone ==
  [][\A i \in 1 .. Len(tasks) :
       /\ TurnStarts(i) =>
            /\ Status(tasks[i].room) = "playing"
            /\ \A pid \in Seated(tasks[i].room) :
                 player[pid].status \in {"stand", "bust", "blackjack"}
       /\ (/\ tasks[i].kind = "dealer" /\ tasks[i].pc = "delay"
           /\ ~(gs[tasks[i].gs].status = "playing" /\ AllDone(tasks[i].gs)))
            => LET after == dealerStart(i).H.gs[tasks[i].gs]
               IN /\ after.dealer = gs[tasks[i].gs].dealer
                  /\ after.deck = gs[tasks[i].gs].deck]_vars

\* What does hold: a turn that starts finds the GameState it was started on
\* in the status 'playing' with every player of that GameState done, and a
\* turn that playDealerTurn refuses leaves the dealer's hand and the deck.
DealerStartsOnItsGameState ==
  [][\A i \in 1 .. Len(tasks) :
       /\ TurnStarts(i) => gs[tasks[i].gs].status = "playing" /\ AllDone(tasks[i].gs)
       /\ (/\ tasks[i].kind = "dealer" /\ tasks[i].pc = "delay"
           /\ ~(gs[tasks[i].gs].status = "playing" /\ AllDone(tasks[i].gs)))
            => LET after == dealerStart(i).H.gs[tasks[i].gs]
               IN /\ after.dealer = gs[tasks[i].gs].dealer
                  /\ after.deck = gs[tasks[i].gs].deck]_vars

(***************************************************************************)
(* Seating and removal: C16                                                *)
(***************************************************************************)
\* C16: while the phase of a room is anything other than waiting (betting,
\* playing, finished) no step seats a new player in it: every request to
\* join is rejected and leaves the players of the room as they are.
C16_SeatOnlyWhenWaiting ==
  [][\A r \in GameRooms :
       Status(r) # "waiting" =>
         /\ Seated(r)' \subseteq Seated(r)
         /\ \A p \in PlayerIds \ Seated(r) :
              /\ ~handleJoinRoom(r, p).res.success
              /\ Room_getPlayers(handleJoinRoom(r, p).H, r) = gs[room[r].gs].players]_vars

(***************************************************************************)
(* C17                                                                     *)
(***************************************************************************)
\* a player is removed from room r in this step and the room keeps its
\* GameState, in which a round is being played
RemovedDuringRound(r) ==
  /\ Status(r) = "playing"
  /\ room'[r].gs = room[r].gs
  /\ Seated(r)' \subseteq Seated(r) /\ Seated(r)' # Seated(r)

\* the first player of GameState g after place from who can take an action
NextToAct(g, from) ==
  LET later == {j \in (from + 1) .. Len(gs[g].players) :
                  canTakeAction(player[gs[g].players[j]])}
  IN IF later = {} THEN NoPlayer
     ELSE gs[g].players[CHOOSE j \in later : \A k \in later : j <= k]

\* C17: when a player is removed during a round, the player who held the
\* turn holds it afterwards if it was another player who was removed; if it
\* was the holder, the turn is with the next player who can act, or with
\* nobody when there is none.
C17_RemovalKeepsTurn ==
  [][\A r \in GameRooms :
       RemovedDuringRound(r) =>
         LET g == room[r].gs
             holder == getCurrentPlayer(gs[g])
             after == getCurrentPlayer(gs'[g])
         IN /\ (holder # NoPlayer /\ holder \in Seated(r)') => after = holder
            /\ (holder # NoPlayer /\ holder \notin Seated(r)')
                 => after = NextToAct(g, gs[g].currentPlayerIndex + 1)]_vars

(***************************************************************************)
(* C18                                                                     *)
(***************************************************************************)
\* the last player of room r is removed in this step while a round is
\* being played
EmptiedDuringRound(r) ==
  /\ room[r].isGameInProgress
  /\ Seated(r) # {}
  /\ Seated(r)' = {}

\* C18: when the removal of a player leaves a room empty during a round,
\* the room is in the waiting phase with isGameInProgress = false after the
\* step, with no winners and no settlement records, and the step settles
\* nothing: the abandoned GameState, where a dealer turn still refers to
\* it, is not finished and holds no record.
C18_EmptyRoomAbandonsRound ==
  [][\A r \in GameRooms :
       EmptiedDuringRound(r) =>
         /\ Status(r)' = "waiting"
         /\ ~room'[r].isGameInProgress
         /\ gs'[room'[r].gs].winners = <<>>
         /\ gs'[room'[r].gs].payouts = <<>>
         /\ gs'[room'[r].gs].dealer.hand = <<>>
         /\ room[r].gs \in DOMAIN gs' =>
              /\ gs'[room[r].gs].status = gs[room[r].gs].status
              /\ gs'[room[r].gs].payouts = gs[room[r].gs].payouts]_vars

\* C18 witness: the only player left during the round, after the deal and
\* before any dealer turn: the room is empty and waiting again, the round
\* counted, nothing pending
C18_Witness ==
  \E r \in GameRooms :
    /\ rounds = 1
    /\ Status(r) = "waiting"
    /\ Seated(r) = {}
    /\ ~room[r].isGameInProgress
    /\ tasks = <<>>
    /\ player = Empty

(***************************************************************************)
(* Two rooms in play: C19                                                  *)
(***************************************************************************)
PairRooms == {"room1", "room2"}

\* who asks to join which room: p1 room1, p2 either room
PairJoins == {<<"room1", "p1">>, <<"room1", "p2">>, <<"room2", "p2">>}

\* the game in the rooms PairRooms with the players GamePlayers, one bet
\* amount, hit and stand
NextPair ==
  \/ \E j \in PairJoins : JoinRoom(j[1], j[2])
  \/ \E p \in GamePlayers : Disconnect(p)
  \/ \E r \in PairRooms, p \in GamePlayers : StartBetting(r, p)
  \/ \E r \in PairRooms, p \in GamePlayers : PlaceBet(r, p, Number(Dollars(5)))
  \/ \E r \in PairRooms, p \in GamePlayers : StartGame(r, p)
  \/ \E r \in PairRooms, p \in GamePlayers, action \in {"hit", "stand"} :
       PlayerAction(r, p, action)
  \/ \E r \in PairRooms, p \in GamePlayers : ResetBalance(r, p)
  \/ \E i \in 1 .. MaxTasks : DealerStart(i)
  \/ \E i \in 1 .. MaxTasks : DealerDraw(i)
  \/ \E i \in 1 .. MaxTasks : DealerEmit(i)
  \/ \E i \in 1 .. MaxTasks : ResetTimer(i)

SpecPair == Init /\ [][NextPair]_vars

\* what room q is made of in heap H: the Room, its GameState (players
\* array, dealer, deck, status, turn cursor, winners, records) and the
\* Player objects seated in it
RoomView(H, q) ==
  [room |-> H.room[q],
   gameState |-> H.gs[H.room[q].gs],
   players |-> [pid \in Range(H.gs[H.room[q].gs].players) |-> H.player[pid]]]

\* the handler or callback that leaves out has left room q as it was, and
\* its players registered in it
Untouched(out, q) ==
  /\ RoomView(out.H, q) = RoomView(Heap, q)
  /\ \A pid \in Seated(q) \cap DOMAIN playerRoomMap :
       pid \in DOMAIN out.M /\ out.M[pid] = playerRoomMap[pid]

\* what the events of the sockets on room r can leave
EventsOn(r) ==
  {handleJoinRoom(r, p) : p \in GamePlayers}
    \cup {handleDisconnect(p) : p \in {x \in DOMAIN socketRoom : socketRoom[x] = r}}
    \cup {handleStartBetting(r, p) : p \in GamePlayers}
    \cup {handlePlaceBet(r, p, amount, k) :
            p \in GamePlayers, amount \in BetAmounts, k \in Shuffles}
    \cup {handleStartGame(r, p, k) : p \in GamePlayers, k \in Shuffles}
    \cup {handlePlayerAction(r, p, action, elapsed) :
            p \in GamePlayers, action \in Actions, elapsed \in Elapsed}
    \cup {handleResetBalance(r, p) : p \in GamePlayers}

\* what the timers of the dealer turns and resets of room r can leave
TimersOn(r) ==
  LET mine(kind, pcs) == {i \in 1 .. Len(tasks) :
                            /\ tasks[i].room = r
                            /\ tasks[i].kind = kind /\ tasks[i].pc \in pcs}
  IN {dealerStart(i) : i \in mine("dealer", {"delay"})}
       \cup {dealerDraw(i) : i \in mine("dealer", {"draw"})}
       \cup {dealerEmit(i) : i \in mine("dealer", {"emit"})}
       \cup {resetTimer(i) : i \in mine("reset", {"timer"})}

Face(card) == [suit |-> card.suit, rank |-> card.rank]

\* the hands of the first n players of GameState g, one after the other
RECURSIVE HandsOf(_, _)
HandsOf(g, n) ==
  IF n = 0 THEN <<>>
  ELSE HandsOf(g, n - 1) \o player[gs[g].players[n]].currentHand

\* every card of the round of GameState g: in the players' hands, in the
\* dealer's hand and left in the deck
CardsOf(g) ==
  LET all == HandsOf(g, Len(gs[g].players)) \o gs[g].dealer.hand \o cards(gs[g].deck)
  IN [i \in 1 .. Len(all) |-> Face(all[i])]

\* C20: in every state of every round, the cards in the hands of the
\* seated players, in the dealer's hand and left in the deck of the room's
\* GameState are pairwise distinct.
C20_CardsDistinct ==
  \A r \in GameRooms :
    LET all == CardsOf(room[r].gs)
    IN \A i, j \in 1 .. Len(all) : i # j => all[i] # all[j]

\* C20 witness: a round with two players seated in which a player has hit
\* and the dealer has drawn
C20_Witness ==
  \E r \in GameRooms :
    /\ Status(r) \in {"playing", "finished"}
    /\ Cardinality(Seated(r)) = 2
    /\ \E p \in Seated(r) : Len(player[p].currentHand) >= 3
    /\ Len(gs[room[r].gs].dealer.hand) >= 3

(***************************************************************************)
(* Bets: C21, C22, C23                                                     *)
(***************************************************************************)
\* the values tried as bets: no bet, half a dollar, a dollar and a half,
\* 5 dollars, more than any balance, and values that are no finite numbers
Bets ==
  {Number(Dollars(0)), Number(1), Number(3), Number(Dollars(5)),
   Number(Dollars(3000)), NaN, Infinity, undefined, String("invalid")}

\* C21: in every reachable state, for every player id p and every value a,
\* GameEngine.placeBet on the room's GameState either succeeds, and then p's
\* balance is lower by exactly a, currentBet is a and hasBet is true, or is
\* rejected, and then p's balance, currentBet and hasBet (and the rest of
\* the heap) are as before; it is rejected when the room is not in the
\* betting phase, when p is not seated, when p has bet already and when a
\* is not a valid amount.
C21_PlaceBetEffect ==
  \A r \in GameRooms, p \in PlayerIds, a \in Bets :
    LET g == room[r].gs
        result == GameEngine_placeBet(Heap, g, p, a)
        rejects == \/ gs[g].status # "betting"
                   \/ p \notin Range(gs[g].players)
                   \/ player[p].hasBet
                   \/ ~validateBet(a, player[p].balance).valid
    IN /\ result.success <=> ~rejects
       /\ result.success =>
            /\ result.H.player[p].balance = player[p].balance - a.n
            /\ result.H.player[p].currentBet = a.n
            /\ result.H.player[p].hasBet
       /\ ~result.success => result.H = Heap

\* C21 witness: in the betting phase one of two seated players has placed
\* a bet of 5 dollars, which is off the balance, and the other has not bet
C21_Witness ==
  \E r \in GameRooms :
    /\ Status(r) = "betting"
    /\ \E p, q \in Seated(r) :
         /\ player[p].hasBet
         /\ player[p].currentBet = Dollars(5)
         /\ player[p].balance = Dollars(INITIAL_BALANCE) - Dollars(5)
         /\ ~player[q].hasBet /\ player[q].currentBet = 0

\* the balances tried, in half dollars
Balances == {0, Dollars(1), Dollars(100), Dollars(INITIAL_BALANCE)}

\* a whole number of dollars that chips add up to: dollars = 1 * a + 5 * b
\* + ... with a, b, ... natural numbers; chip 1 makes every whole number one
Representable(n) == n % 2 = 0 /\ n \div 2 >= 0

\* the reason of the first check of the four that bet fails, "" if none
FirstFailing(bet, balance) ==
  IF notFiniteNumber(bet) THEN "Invalid bet amount format"
  ELSE IF bet.n < Dollars(MIN_BET) THEN "Bet must be at least $1"
  ELSE IF bet.n > balance THEN "Insufficient balance"
  ELSE IF ~Representable(bet.n) THEN "Invalid chip combination"
  ELSE ""

\* C22: for every value and every balance, validateBet gives the reason of
\* the first failing check in the order: no finite number, below the
\* minimum of 1 dollar, above the balance, no combination of chips; it
\* accepts exactly the values that pass all four.
C22_FirstFailingCheck ==
  \A bet \in Bets, balance \in Balances \cup {player[p].balance : p \in DOMAIN player} :
    LET validation == validateBet(bet, balance)
    IN /\ validation.valid <=> FirstFailing(bet, balance) = ""
       /\ validation.reason = FirstFailing(bet, balance)

\* What does hold: validateBet accepts exactly the values that pass all four
\* checks, and for the first three checks gives the reason of the first one
\* that fails.
ValidateBetAccepts ==
  \A bet \in Bets, balance \in Balances \cup {player[p].balance : p \in DOMAIN player} :
    LET validation == validateBet(bet, balance)
    IN /\ validation.valid <=> FirstFailing(bet, balance) = ""
       /\ FirstFailing(bet, balance) # "Invalid chip combination"
            => validation.reason = FirstFailing(bet, balance)

\* the wagers tried, in dollars, and the outcomes
Wagers == (0 .. 12) \cup {25, 100, 500, 1000, 5000}
Outcomes == {"blackjack", "win", "push", "lose", "surrender", ""}

C24_StartBettingPhase ==
  \A r \in GameRooms :
    LET started == Room_startBettingPhase(Heap, r)
    IN /\ Seated(r) = {} => ~started.ok
       /\ Status(r) # "waiting" => ~started.ok
       /\ started.ok =>
            /\ started.H.gs[room[r].gs].status = "betting"
            /\ \A p \in Seated(r) : ~started.H.player[p].hasBet

\* What does hold: Room.startBettingPhase fails when nobody is seated and
\* while isGameInProgress is set, and nowhere else; when it succeeds the
\* phase is 'betting' and every Player object is as it was.
StartBettingOutsideRound ==
  \A r \in GameRooms :
    LET started == Room_startBettingPhase(Heap, r)
    IN /\ started.ok <=> (Seated(r) # {} /\ ~room[r].isGameInProgress)
       /\ started.ok =>
            /\ started.H.gs[room[r].gs].status = "betting"
            /\ started.H.player = player

(***************************************************************************)
(* Joining again: C25, C26                                                 *)
(***************************************************************************)
\* the call came back with a result: it threw no exception
Returned(result) == result.message # "ReferenceError"

\* the ids seated in room r, for every room of the registry
SeatedIn(r) == IF r \in DOMAIN room THEN Seated(r) ELSE {}

\* C25: in every reachable state of the registry, addPlayerToRoom for a
\* player seated in that same room returns a result with success = false
\* and leaves the room's players and playerRoomMap as they were.
C25_SeatedTwiceRejected ==
  \A r \in RoomIds, p \in PlayerIds :
    p \in SeatedIn(r) =>
      LET result == addPlayerToRoom(Heap, playerRoomMap, r, p, player[p])
      IN /\ Returned(result)
         /\ ~result.success
         /\ result.H = Heap
         /\ result.M = playerRoomMap

\* What does hold: addPlayerToRoom for a player seated in that same room
\* gives no success and leaves the heap and playerRoomMap as they were.
SeatedTwiceChangesNothing ==
  \A r \in RoomIds, p \in PlayerIds :
    p \in SeatedIn(r) =>
      LET result == addPlayerToRoom(Heap, playerRoomMap, r, p, player[p])
      IN ~result.success /\ result.H = Heap /\ result.M = playerRoomMap

\* C26: in every reachable state, join-room for a player seated in that
\* room is answered with joined-room, which carries the game state, and not
\* with an error.
C26_RejoinGetsSnapshot ==
  \A r \in GameRooms, p \in GamePlayers :
    p \in Seated(r) => handleJoinRoom(r, p).res.success

\* What does hold: join-room for a player seated in that room is answered
\* with the error JOIN_ROOM_ERROR and changes nothing but isConnected of the
\* player, which it sets.
RejoinIsAnError ==
  \A r \in GameRooms, p \in GamePlayers :
    p \in Seated(r) =>
      /\ handleJoinRoom(r, p).res.code = "JOIN_ROOM_ERROR"
      /\ handleJoinRoom(r, p).H = [Heap EXCEPT !.player[p].isConnected = TRUE]
      /\ handleJoinRoom(r, p).M = playerRoomMap

(***************************************************************************)
(* The dealer's hidden card: C27                                           *)
(***************************************************************************)
\* the places of the dealer's hand of GameState g that lie face down
HiddenAt(H, g) ==
  {i \in 1 .. Len(H.gs[g].dealer.hand) : H.gs[g].dealer.hand[i].hidden}

\* the round of g as it would be had card c been dealt face down to the
\* dealer in place of the hidden card
WithHidden(H, g, c) ==
  LET hand == [i \in 1 .. Len(H.gs[g].dealer.hand) |->
                 IF i \in HiddenAt(H, g) THEN setHidden(c, TRUE)
                 ELSE H.gs[g].dealer.hand[i]]
  IN [H EXCEPT !.gs[g].dealer.hand = hand,
               !.gs[g].dealer.handValue = calculateDealerHandValue(hand)]

\* C27: in every state in which the dealer holds a card face down, the
\* gameState sent to the clients is the same whatever that card is: it
\* gives away neither rank, suit nor value of the card, nor a dealer hand
\* value that depends on it.
C27_HiddenCardNotDisclosed ==
  \A r \in GameRooms :
    LET g == room[r].gs
    IN HiddenAt(Heap, g) # {} =>
         \A c \in Range(cards(gs[g].deck)) :
           serializeGameState(WithHidden(Heap, g, c), g) = serializeGameState(Heap, g)

(***************************************************************************)
(* The registry filled up: C28                                             *)
(***************************************************************************)
\* the ids rooms are created with: the default rooms and eight more, one
\* more than the registry takes
ManyRooms ==
  RoomIds \cup {"room4", "room5", "room6", "room7", "room8", "room9",
                "room10", "room11"}
FirstPlayers == {"p1"}

NextFull ==
  \/ \E r \in ManyRooms : CreateRoom(r)
  \/ \E r \in GameRooms, p \in FirstPlayers : AddPlayerToRoom(r, p)

SpecFull == Init /\ [][NextFull]_vars

\* C28: in every reachable state of the registry, createRoom with an id
\* that exists gives that room and leaves the rooms, their game states and
\* players as they were; createRoom with a new id gives no room when there
\* are maxRooms rooms; and there are never more than maxRooms rooms.
C28_CreateRoomBounded ==
  /\ Cardinality(DOMAIN room) <= maxRooms
  /\ \A r \in ManyRooms :
       LET created == createRoom(Heap, r)
       IN /\ r \in DOMAIN room => created.room = r /\ created.H = Heap
          /\ (r \notin DOMAIN room /\ Cardinality(DOMAIN room) = maxRooms)
               => created.room = NoRoom /\ created.H = Heap

\* C28 witness: the registry holds maxRooms rooms, one of them with a
\* player seated, and an id is left that has no room
C28_Witness ==
  /\ Cardinality(DOMAIN room) = maxRooms
  /\ \E r \in DOMAIN room : Seated(r) # {}
  /\ ManyRooms \ DOMAIN room # {}

(***************************************************************************)
(* The reset between rounds: C29                                           *)
(***************************************************************************)
\* C29: in every reachable state, Room.resetGame leaves the same players
\* seated in the same order with the balances they had, every one of them
\* with an empty hand, hand value 0, status 'waiting', currentBet 0 and
\* hasBet false; the dealer's hand, the winners and the payout records
\* are empty, the phase is 'waiting' and no game is in progress.
C29_ResetKeepsPlayers ==
  \A r \in GameRooms :
    LET H == Room_resetGame(Heap, r)
        G == H.gs[H.room[r].gs]
    IN /\ G.players = gs[room[r].gs].players
       /\ \A p \in Seated(r) :
            /\ H.player[p].balance = player[p].balance
            /\ H.player[p].currentHand = <<>>
            /\ H.player[p].handValue = 0
            /\ H.player[p].status = "waiting"
            /\ H.player[p].currentBet = 0
            /\ ~H.player[p].hasBet
       /\ G.dealer.hand = <<>>
       /\ G.winners = <<>>
       /\ G.payouts = <<>>
       /\ G.status = "waiting"
       /\ ~H.room[r].isGameInProgress

\* C29 witness: the reset timer has fired after a settled round: two
\* players are seated with empty hands in the waiting phase, one of them
\* with the balance the round left, 5 dollars above the initial one
C29_Witness ==
  \E r \in GameRooms :
    /\ Status(r) = "waiting" /\ rounds = 1 /\ tasks = <<>>
    /\ Cardinality(Seated(r)) = 2
    /\ \A p \in Seated(r) : player[p].currentHand = <<>> /\ player[p].currentBet = 0
    /\ \E p \in Seated(r) : player[p].balance = Dollars(INITIAL_BALANCE) + Dollars(5)

(***************************************************************************)
(* A round of two wagers, 100 and 200 dollars: C30                         *)
(***************************************************************************)
ScenarioBets == {Number(Dollars(100)), Number(Dollars(200))}

NextScenario ==
  \/ \E r \in GameRooms, p \in GamePlayers : JoinRoom(r, p)
  \/ \E r \in GameRooms, p \in GamePlayers : StartBetting(r, p)
  \/ \E r \in GameRooms, p \in GamePlayers, amount \in ScenarioBets : PlaceBet(r, p, amount)
  \/ \E r \in GameRooms, p \in GamePlayers, action \in {"hit", "stand"} : PlayerAction(r, p, action)
  \/ \E i \in 1 .. MaxTasks : DealerStart(i)
  \/ \E i \in 1 .. MaxTasks : DealerDraw(i)
  \/ \E i \in 1 .. MaxTasks : DealerEmit(i)
  \/ \E i \in 1 .. MaxTasks : ResetTimer(i)

SpecScenario == Init /\ [][NextScenario]_vars

\* this step settles the round of g, in which A, who wagers 100 dollars,
\* stands at 19, B, who wagers 200, stands at 20, they are the two players,
\* and the dealer stands at 18
Scenario(g, A, B) ==
  /\ Settles(g)
  /\ Range(gs[g].players) = {A, B} /\ A # B
  /\ player[A].currentBet = Dollars(100) /\ player[B].currentBet = Dollars(200)
  /\ player[A].status = "stand" /\ player[A].handValue = 19
  /\ player[B].status = "stand" /\ player[B].handValue = 20
  /\ gs'[g].dealer.handValue = 18

\* what the round did to the balance of p, who held its wager before this
\* step: the balance after it against the balance before the bet
BalanceChange(p) == player'[p].balance - (player[p].balance + player[p].currentBet)

\* C30, as amended: when the round of A (100 dollars, stands at 19) and B
\* (200 dollars, stands at 20) is settled with the dealer standing at 18,
\* the winners are A and B; A is settled with outcome win, payout 100 and
\* balance change +100, B with outcome win, payout 200 and balance change
\* +200.
C30_BothBeatTheDealer ==
  [][\A g \in DOMAIN gs, A \in GamePlayers, B \in GamePlayers :
       Scenario(g, A, B) =>
         /\ Range(gs'[g].winners) = {A, B}
         /\ Records(gs'[g], A) # {} /\ Records(gs'[g], B) # {}
         /\ \A rec \in Records(gs'[g], A) :
              rec.outcome = "win" /\ rec.payout = Dollars(100)
         /\ BalanceChange(A) = Dollars(100)
         /\ \A rec \in Records(gs'[g], B) :
              rec.outcome = "win" /\ rec.payout = Dollars(200)
         /\ BalanceChange(B) = Dollars(200)]_vars

\* C30 witness: the round is settled: the players stood at 19 and 20, the
\* dealer at 18, both are winners, and the balances are 100 and 200 dollars
\* above the initial one
C30_Witness ==
  \E r \in GameRooms :
    /\ Status(r) = "finished"
    /\ gs[room[r].gs].dealer.handValue = 18
    /\ \E A, B \in Seated(r) :
         /\ player[A].handValue = 19 /\ player[B].handValue = 20
         /\ Range(gs[room[r].gs].winners) = {A, B}
         /\ player[A].balance = Dollars(INITIAL_BALANCE) + Dollars(100)
         /\ player[B].balance = Dollars(INITIAL_BALANCE) + Dollars(200)

\* C30 as stated: in that round the winners are B alone; A is settled with
\* outcome lose, payout 0 and balance change -100, B with outcome win,
\* payout 200 and balance change +200.
C30_Original ==
  [][\A g \in DOMAIN gs, A \in GamePlayers, B \in GamePlayers :
       Scenario(g, A, B) =>
         /\ Range(gs'[g].winners) = {B}
         /\ \A rec \in Records(gs'[g], A) : rec.outcome = "lose" /\ rec.payout = 0
         /\ BalanceChange(A) = 0 - Dollars(100)
         /\ \A rec \in Records(gs'[g], B) :
              rec.outcome = "win" /\ rec.payout = Dollars(200)
         /\ BalanceChange(B) = Dollars(200)]_vars

(***************************************************************************)
(* C31                                                                     *)
(***************************************************************************)
\* the turn of player p in room r ends in this step: p held the turn with
\* status 'playing' and is 'stand' or 'bust' afterwards (a stand, a bust, or
\* the stand set at 21), in the same GameState and still seated
TurnEnds(r, p) ==
  /\ Status(r) = "playing"
  /\ room'[r].gs = room[r].gs
  /\ Current(r) = p
  /\ p \in Seated(r)'
  /\ player[p].status = "playing"
  /\ player'[p].status \in {"stand", "bust"}

\* the places after place from in the players of GameState G whose player
\* has status 'playing' in the player table P
PlayingAfter(G, P, from) ==
  {j \in (from + 1) .. Len(G.players) : P[G.players[j]].status = "playing"}

\* C31: after a stand, a bust or the stand set at 21, currentPlayerIndex is
\* the place of the next player in seat order whose status is 'playing',
\* players who are already blackjack, stand or bust being skipped, or it is
\* past the end when there is no such player.
C31_TurnGoesToNextPlaying ==
  [][\A r \in GameRooms, p \in GamePlayers :
       TurnEnds(r, p) =>
         LET G == gs'[room[r].gs]
             later == PlayingAfter(G, player', gs[room[r].gs].currentPlayerIndex + 1)
         IN IF later = {}
            THEN G.currentPlayerIndex >= Len(G.players)
            ELSE G.currentPlayerIndex + 1 = CHOOSE j \in later : \A k \in later : j <= k]_vars

\* What does hold: the end of a turn moves currentPlayerIndex on by exactly
\* one place, whatever the status of the player at that place.
TurnEndAdvancesByOne ==
  [][\A r \in GameRooms, p \in GamePlayers :
       TurnEnds(r, p) =>
         gs'[room[r].gs].currentPlayerIndex = gs[room[r].gs].currentPlayerIndex + 1]_vars

(***************************************************************************)
(* C32                                                                     *)
(***************************************************************************)
\* currentPlayerIndex of GameState G is past its last seated player
PastEnd(G) == G.currentPlayerIndex >= Len(G.players)

\* every player seated in GameState G is stand, bust or blackjack in the
\* player table P
EveryoneDone(G, P) ==
  \A j \in 1 .. Len(G.players) :
    P[G.players[j]].status \in {"stand", "bust", "blackjack"}

\* C32: whenever a room is in the playing phase with currentPlayerIndex past
\* its last seated player, every seated player's status is stand, bust or
\* blackjack.
C32_PastEndMeansAllDone ==
  \A r \in GameRooms :
    (Status(r) = "playing" /\ PastEnd(gs[room[r].gs]))
      => EveryoneDone(gs[room[r].gs], player)

\* What does hold: when the end of a turn takes currentPlayerIndex past the
\* last seated player, every seated player is stand, bust or blackjack.
LastTurnEndMeansAllDone ==
  [][\A r \in GameRooms, p \in GamePlayers :
       (TurnEnds(r, p) /\ PastEnd(gs'[room[r].gs]))
         => EveryoneDone(gs'[room[r].gs], player')]_vars

(***************************************************************************)
(* C33                                                                     *)
(***************************************************************************)
\* the heap as it is, and with the deck of GameState g dealt out
Decks(H, g) == {H, [H EXCEPT !.gs[g].deck.left = 0]}

\* the hands and statuses of all players, and the deck and
\* currentPlayerIndex of GameState g, in heap H
Table(H, g) ==
  [hands |-> [pid \in DOMAIN H.player |-> H.player[pid].currentHand],
   statuses |-> [pid \in DOMAIN H.player |-> H.player[pid].status],
   dealer |-> H.gs[g].dealer,
   deck |-> H.gs[g].deck,
   currentPlayerIndex |-> H.gs[g].currentPlayerIndex]

\* the commands tried: the two actions, an unknown one and an empty one
Commands == Actions \cup {""}

\* C33: a processPlayerAction call that answers success = false (a failed
\* validation, a lock conflict, a hit on an empty deck) leaves all hands,
\* all statuses, the deck and currentPlayerIndex as they were, puts no lock
\* of its own on the room, and the room still accepts the stand of the
\* player whose turn it is once any lock is as old as the timeout.
C33_FailedActionChangesNothing ==
  \A r \in GameRooms, p \in PlayerIds \cup {""}, action \in Commands,
     elapsed \in LockAges :
    \A H \in Decks(Heap, room[r].gs) :
      LET g == room[r].gs
          result == processPlayerAction(H, pendingActions, g, p, action, elapsed)
          holder == getCurrentPlayer(H.gs[g])
      IN ~result.success =>
           /\ Table(result.H, g) = Table(H, g)
           /\ r \in DOMAIN result.pending
                => (r \in DOMAIN pendingActions /\ result.pending = pendingActions)
           /\ (/\ H.gs[g].status = "playing"
               /\ holder # NoPlayer
               /\ canTakeAction(H.player[holder]))
                => processPlayerAction(result.H, result.pending, g, holder,
                                       "stand", actionTimeout).success

\* C33 witness: during a round a fresh lock is on the room and it is the
\* turn of a player who can act: that player's hit is turned away by the
\* lock, an unknown action fails validation once the lock is old, and with
\* the deck dealt out the hit fails for want of a card
C33_Witness ==
  \E r \in GameRooms :
    LET g == room[r].gs
        dealtOut == [Heap EXCEPT !.gs[g].deck.left = 0]
    IN /\ Status(r) = "playing"
       /\ r \in DOMAIN pendingActions
       /\ Current(r) # NoPlayer
       /\ canTakeAction(player[Current(r)])
       /\ Len(player[Current(r)].currentHand) = 3
       /\ processPlayerAction(Heap, pendingActions, g, Current(r), "hit", 0).message
            = "Another action is being processed. Please wait."
       /\ processPlayerAction(Heap, pendingActions, g, Current(r), "double",
                              actionTimeout).message = "Invalid action type"
       /\ processPlayerAction(dealtOut, pendingActions, g, Current(r), "hit",
                              actionTimeout).message = "No cards left in deck"

(***************************************************************************)
(* One player who plays a second round in the same room: C34, C39          *)
(***************************************************************************)
MaxRematch == 2
RematchPlayers == {"p1"}

\* the state after a handler or callback that leaves out, within two rounds
Recommit(out) ==
  /\ out.n <= MaxRematch
  /\ Len(out.T) <= MaxTasks
  /\ Apply(out)

\* the game in the rooms GameRooms with the players RematchPlayers, one bet
\* amount, hit and stand, up to MaxRematch rounds
NextRematch ==
  \/ \E r \in GameRooms, p \in RematchPlayers : Recommit(handleJoinRoom(r, p))
  \/ \E r \in GameRooms, p \in RematchPlayers : Recommit(handleStartBetting(r, p))
  \/ \E r \in GameRooms, p \in RematchPlayers, k \in Shuffles :
       Recommit(handlePlaceBet(r, p, Number(Dollars(5)), k))
  \/ \E r \in GameRooms, p \in RematchPlayers, action \in {"hit", "stand"},
        elapsed \in Elapsed :
       Recommit(handlePlayerAction(r, p, action, elapsed))
  \/ \E r \in GameRooms, p \in RematchPlayers : Recommit(handleResetBalance(r, p))
  \/ \E i \in 1 .. Len(tasks) :
       tasks[i].kind = "dealer" /\ tasks[i].pc = "delay" /\ Recommit(dealerStart(i))
  \/ \E i \in 1 .. Len(tasks) :
       tasks[i].kind = "dealer" /\ tasks[i].pc = "draw" /\ Recommit(dealerDraw(i))
  \/ \E i \in 1 .. Len(tasks) :
       tasks[i].kind = "dealer" /\ tasks[i].pc = "emit" /\ Recommit(dealerEmit(i))
  \/ \E i \in 1 .. Len(tasks) :
       tasks[i].kind = "reset" /\ Recommit(resetTimer(i))

SpecRematch == Init /\ [][NextRematch]_vars

(***************************************************************************)
(* C34                                                                     *)
(***************************************************************************)
\* the place of player pid in the players of GameState G, 0 when not there
PlaceOf(G, pid) ==
  IF pid \in Range(G.players)
  THEN CHOOSE j \in 1 .. Len(G.players) : G.players[j] = pid
  ELSE 0

\* a status a player's turn ends with
Final == {"stand", "bust", "blackjack"}

\* C34: in every step taken while a room's round is being played, the
\* status of each player who stays seated is left as it is or moves from
\* 'playing' to stand, bust or blackjack; currentPlayerIndex does not
\* decrease, and when the turn passes to another player that player sat at
\* a later place than the index had reached.
C34_StatusAndCursorForward ==
  [][\A r \in GameRooms :
       Status(r) = "playing" =>
         /\ \A p \in Seated(r) \cap Seated(r)' :
              \/ player'[p].status = player[p].status
              \/ player[p].status = "playing" /\ player'[p].status \in Final
         /\ room'[r].gs = room[r].gs =>
              LET G == gs[room[r].gs]
                  after == gs'[room[r].gs]
              IN /\ after.currentPlayerIndex >= G.currentPlayerIndex
                 /\ (getCurrentPlayer(after) # NoPlayer
                       /\ getCurrentPlayer(after) # getCurrentPlayer(G))
                      => PlaceOf(G, getCurrentPlayer(after)) > G.currentPlayerIndex + 1]_vars

\* What does hold: a step that leaves the room its GameState, which every
\* step but a resetGame does, leaves each status as it is or moves it from
\* 'playing' to stand, bust or blackjack, and does not decrease
\* currentPlayerIndex.
ForwardWhileGameStateLives ==
  [][\A r \in GameRooms :
       (Status(r) = "playing" /\ room'[r].gs = room[r].gs) =>
         /\ \A p \in Seated(r) \cap Seated(r)' :
              \/ player'[p].status = player[p].status
              \/ player[p].status = "playing" /\ player'[p].status \in Final
         /\ gs'[room[r].gs].currentPlayerIndex >= gs[room[r].gs].currentPlayerIndex]_vars

(***************************************************************************)
(* C35                                                                     *)
(***************************************************************************)
\* an amount held in half dollars is a whole number of dollars, not negative
WholeDollars(n) == n >= 0 /\ n % Dollars(1) = 0

\* C35: in every reachable state the balance and the currentBet of every
\* player are non-negative whole numbers of dollars.
C35_BalanceAndBetWhole ==
  \A p \in DOMAIN player :
    WholeDollars(player[p].balance) /\ WholeDollars(player[p].currentBet)

\* What does hold: neither is ever negative, and the currentBet is a whole
\* number of dollars.
BalanceAndBetNotNegative ==
  \A p \in DOMAIN player :
    player[p].balance >= 0 /\ WholeDollars(player[p].currentBet)

(***************************************************************************)
(* C36                                                                     *)
(***************************************************************************)
\* the player ids a command may carry: the empty one and one with markup
\* included
CommandIds == PlayerIds \cup {"", "<p1>"}

\* the conditions under which an action is turned away, each read off the
\* state: G is the GameState, P the player table
NotInProgress(G) == G.status # "playing"
NotFound(G, pid) == pid \notin Range(G.players)
NotTurn(G, pid) ==
  ~(G.currentPlayerIndex \in 0 .. (Len(G.players) - 1)
      /\ G.players[G.currentPlayerIndex + 1] = pid)
CannotAct(P, pid) == ~(P[pid].status = "playing" /\ P[pid].isConnected)
UnknownAction(action) == action \notin {"hit", "HIT", " hit ", "stand", "STAND", " stand "}

\* the reason of the first failing check in the order game not in progress,
\* player not found, not the player's turn, player cannot act, invalid
\* action type; "" when none fails
FirstOfFive(G, P, pid, action) ==
  IF NotInProgress(G) THEN "Game is not in progress"
  ELSE IF NotFound(G, pid) THEN "Player not found"
  ELSE IF NotTurn(G, pid) THEN "Not player's turn"
  ELSE IF CannotAct(P, pid) THEN "Player cannot take action (bust or disconnected)"
  ELSE IF UnknownAction(action) THEN "Invalid action type"
  ELSE ""

\* the same with the three checks of form in their places: an empty player
\* id and one with markup before the search for the player, an empty action
\* before its type
FirstOfEight(G, P, pid, action) ==
  IF NotInProgress(G) THEN "Game is not in progress"
  ELSE IF pid = "" THEN "Invalid player ID"
  ELSE IF pid \in {"<p1>"} THEN "Invalid player ID format"
  ELSE IF NotFound(G, pid) THEN "Player not found"
  ELSE IF NotTurn(G, pid) THEN "Not player's turn"
  ELSE IF CannotAct(P, pid) THEN "Player cannot take action (bust or disconnected)"
  ELSE IF action = "" THEN "Invalid action format"
  ELSE IF UnknownAction(action) THEN "Invalid action type"
  ELSE ""

\* C36 as stated: for every player id and action, validateAction on the
\* room's GameState gives the reason of the first failing check in the
\* order game not in progress, player not found, not the player's turn,
\* player cannot act, invalid action type.
C36_Original ==
  \A r \in GameRooms, p \in CommandIds, action \in Commands :
    LET validation == validateAction(Heap, room[r].gs, p, action)
        first == FirstOfFive(gs[room[r].gs], player, p, action)
    IN /\ validation.valid <=> first = ""
       /\ validation.reason = first

\* C36: for every player id and action, validateAction on the room's
\* GameState gives the reason of the first failing check in the order game
\* not in progress, empty player id, malformed player id, player not found,
\* not the player's turn, player cannot act, empty action, invalid action
\* type; the eight reasons differ from one another, and the action is valid
\* exactly when no check fails.
C36_FirstFailingReason ==
  \A r \in GameRooms, p \in CommandIds, action \in Commands :
    LET validation == validateAction(Heap, room[r].gs, p, action)
        first == FirstOfEight(gs[room[r].gs], player, p, action)
    IN /\ validation.valid <=> first = ""
       /\ validation.reason = first

\* C36 witness: during a round the turn is with a player who has a
\* blackjack: that player's hit is turned away because the player cannot
\* act, the other seated player's because it is not that player's turn, a
\* stranger's because the player is not found
C36_Witness ==
  \E r \in GameRooms :
    LET g == room[r].gs
    IN /\ Status(r) = "playing"
       /\ Current(r) # NoPlayer
       /\ player[Current(r)].status = "blackjack"
       /\ validateAction(Heap, g, Current(r), "hit").reason
            = "Player cannot take action (bust or disconnected)"
       /\ \E q \in Seated(r) :
            validateAction(Heap, g, q, "hit").reason = "Not player's turn"
       /\ \E q \in PlayerIds :
            validateAction(Heap, g, q, "hit").reason = "Player not found"

(***************************************************************************)
(* Hands built card by card, as the unit tests of Player and GameState     *)
(* build them: C37                                                         *)
(***************************************************************************)
MaxHand == 4

\* the cards handed out: the four aces, two tens, a nine and a five
HandCards ==
  {Card(suit, "A") : suit \in Range(suits)}
    \cup {Card("spades", rank) : rank \in {"K", "Q", "9", "5"}}

\* the cards held in the room r by its players and its dealer
Held(r) ==
  Range(gs[room[r].gs].dealer.hand)
    \cup UNION {Range(player[p].currentHand) : p \in Seated(r)}

CardsOut(r) ==
  Len(gs[room[r].gs].dealer.hand)
    + (IF Seated(r) = {} THEN 0
       ELSE Len(player[CHOOSE p \in Seated(r) : TRUE].currentHand))

\* player.addCard(card) on player p of room r
AddCard(r, p, card) ==
  /\ p \in Seated(r)
  /\ card \notin Held(r)
  /\ CardsOut(r) < MaxHand
  /\ Commit([Same(Timer) EXCEPT !.H.player[p] = addCard(@, card)])

\* gameState.addCardToDealer(card) on the GameState of room r
AddCardToDealer(r, card) ==
  /\ card \notin Held(r)
  /\ CardsOut(r) < MaxHand
  /\ Commit([Same(Timer) EXCEPT !.H.gs[room[r].gs] = addCardToDealer(@, card)])

NextHands ==
  \/ \E r \in GameRooms, p \in RematchPlayers : JoinRoom(r, p)
  \/ \E r \in GameRooms, p \in RematchPlayers, card \in HandCards : AddCard(r, p, card)
  \/ \E r \in GameRooms, card \in HandCards : AddCardToDealer(r, card)

SpecHands == Init /\ [][NextHands]_vars

\* the total of a hand with every ace counted as 1
RECURSIVE Low(_)
Low(hand) ==
  IF hand = <<>> THEN 0
  ELSE LET rank == hand[Len(hand)].rank
           pips == CASE rank = "A" -> 1
                     [] rank \in {"10", "J", "Q", "K"} -> 10
                     [] rank = "2" -> 2 [] rank = "3" -> 3 [] rank = "4" -> 4
                     [] rank = "5" -> 5 [] rank = "6" -> 6 [] rank = "7" -> 7
                     [] rank = "8" -> 8 [] rank = "9" -> 9
       IN pips + Low(SubSeq(hand, 1, Len(hand) - 1))

\* the totals a hand can be given by counting each ace as 1 or as 11
Totals(hand) ==
  {Low(hand) + 10 * k :
     k \in 0 .. Cardinality({i \in 1 .. Len(hand) : hand[i].rank = "A"})}

\* the largest total that is not above 21, or the total with every ace as 1
\* when all are above 21
Best(hand) ==
  LET good == {t \in Totals(hand) : t <= 21}
  IN IF good = {} THEN Low(hand)
     ELSE CHOOSE t \in good : \A u \in good : u <= t

\* C37: the handValue of every player and of every dealer is the largest
\* total not above 21 that its hand can be given by counting each ace as 1
\* or as 11, or the total with every ace counted as 1 when every such total
\* is above 21.
C37_HandValueIsBest ==
  /\ \A p \in DOMAIN player : player[p].handValue = Best(player[p].currentHand)
  /\ \A g \in DOMAIN gs : gs[g].dealer.handValue = Best(gs[g].dealer.hand)

\* C37 witness: a player holds two aces and a nine, worth 21 with one ace
\* at 11 and one at 1, and the dealer holds an ace and a king
C37_Witness ==
  \E r \in GameRooms, p \in RematchPlayers :
    /\ p \in Seated(r)
    /\ Len(player[p].currentHand) = 3
    /\ Low(player[p].currentHand) = 11
    /\ player[p].handValue = 21
    /\ Len(gs[room[r].gs].dealer.hand) = 1
    /\ gs[room[r].gs].dealer.handValue = 11

\* C37 second case, every total above 21: a player holds a king, a queen
\* and two aces, worth 22
HandAboveAllTotals ==
  \E p \in DOMAIN player :
    /\ Len(player[p].currentHand) = 4
    /\ \A t \in Totals(player[p].currentHand) : t > 21
    /\ player[p].handValue = 22

(***************************************************************************)
(* The game with its timers firing and its turn holders acting: C38        *)
(***************************************************************************)
\* a timer of playDealerTurnAsync fires: Node runs every timer that is due
TimerFires ==
  \E i \in 1 .. MaxTasks :
    DealerStart(i) \/ DealerDraw(i) \/ DealerEmit(i) \/ ResetTimer(i)

\* a timer is set: a dealer turn waits for a delay of its own, or a reset
\* for its five seconds
TimerSet == tasks # <<>>

\* the player who holds the turn in a round stands
HolderStands ==
  \E r \in GameRooms, p \in GamePlayers :
    /\ Status(r) = "playing"
    /\ Current(r) = p
    /\ PlayerAction(r, p, "stand")

\* the game in the rooms GameRooms with the players GamePlayers, one bet
\* amount, hit and stand
NextLive ==
  \/ \E r \in GameRooms, p \in GamePlayers : JoinRoom(r, p)
  \/ \E p \in GamePlayers : Disconnect(p)
  \/ \E r \in GameRooms, p \in GamePlayers : StartBetting(r, p)
  \/ \E r \in GameRooms, p \in GamePlayers : PlaceBet(r, p, Number(Dollars(5)))
  \/ \E r \in GameRooms, p \in GamePlayers, action \in {"hit", "stand"} :
       PlayerAction(r, p, action)
  \/ TimerFires

\* Weak fairness of the timers, written out with the state predicate under
\* which a timer can fire (a timer that stays set fires), and of the stand
\* of the player who holds the turn: a holder who hits comes to a stand or
\* a bust in a few cards, so the holder who acts is one who does not stay
\* able to stand for ever.
SpecLive ==
  /\ Init /\ [][NextLive]_vars
  /\ []<>(~TimerSet) \/ []<><<TimerFires>>_vars
  /\ WF_vars(HolderStands)

\* C38: every round that is being played with a player seated comes to its
\* settlement, or to its end by the last player's leaving, provided the
\* timers fire and each player who holds the turn hits, stands or leaves.
C38_RoundReachesSettlement ==
  \A r \in GameRooms :
    (Status(r) = "playing" /\ Seated(r) # {}) ~> (Status(r) # "playing")

\* the GameState of room r is being played, a player of it still has
\* status 'playing', and currentPlayerIndex designates nobody or a player
\* who cannot act
CursorStuck(r) ==
  /\ Status(r) = "playing"
  /\ \E q \in Seated(r) : player[q].status = "playing"
  /\ Current(r) = NoPlayer \/ ~canTakeAction(player[Current(r)])

\* the GameState of room r is being played, all its players are done, and
\* no dealer turn is pending or running on it
DealerMissing(r) ==
  /\ Status(r) = "playing"
  /\ Seated(r) # {}
  /\ areAllPlayersDone(Heap, room[r].gs)
  /\ TurnsOn(room[r].gs) = {}

\* The two states the claim rules out, as invariants: neither holds.
NoCursorStuck == \A r \in GameRooms : ~CursorStuck(r)
NoDealerMissing == \A r \in GameRooms : ~DealerMissing(r)

(***************************************************************************)
(* C39                                                                     *)
(***************************************************************************)
\* the wager of player p, seated in room r before and after, is cleared in
\* this step
WagerCleared(r, p) ==
  /\ p \in Seated(r) \cap Seated(r)'
  /\ player[p].currentBet > 0
  /\ player'[p].currentBet = 0

\* this step is the balance reset of player p and nothing else
OwnBalanceReset(r, p) ==
  /\ room' = room /\ gs' = gs /\ tasks' = tasks
  /\ player' = [player EXCEPT ![p] = resetBalance(@)]

\* this step is a resetGame of room r that comes from a timer or a dealer
\* turn: the room gets a new GameState and a pending task is gone
ResetByTask(r) ==
  /\ room'[r].gs # room[r].gs
  /\ Len(tasks') < Len(tasks)
  /\ Seated(r)' = Seated(r)

\* C39: the wager of a player who stays seated is cleared only by the
\* settlement of the round it was placed for or by that player's own
\* balance reset; in particular no resetGame of a timer or of a dealer
\* turn's error recovery clears it.
C39_WagerClearedOnlyBySettlement ==
  [][\A r \in GameRooms, p \in GamePlayers :
       WagerCleared(r, p) =>
         \/ Settles(room[r].gs)
         \/ OwnBalanceReset(r, p)]_vars

\* What does hold: a step that takes a wager away other than by settlement
\* or balance reset is a resetGame run by a timer or a dealer turn, and it
\* gives nothing back: the balance stays as the bet left it.
WagerLostOnlyToReset ==
  [][\A r \in GameRooms, p \in GamePlayers :
       (WagerCleared(r, p) /\ ~Settles(room[r].gs) /\ ~OwnBalanceReset(r, p))
         => (ResetByTask(r) /\ player'[p].balance = player[p].balance)]_vars

(***************************************************************************)
(* C40                                                                     *)
(***************************************************************************)
\* C40: whatever the order of the triggers (the action that ends the last
\* turn, a round start with nobody to act, a disconnect that leaves only
\* players who are done), at most one dealer turn is under way on a round,
\* and the dealer's hand takes a card only while its value is below 17.
C40_OneDealerTurnPerRound ==
  [][\A g \in DOMAIN gs \cap DOMAIN gs' :
       /\ Cardinality(TurnsOn(g)') <= 1
       /\ DealerDraws(g) => gs[g].dealer.handValue < hitThreshold]_vars

\* What does hold: a dealer turn is started only on a GameState that is
\* being played, and two turns are under way on one GameState only after a
\* disconnect has started the second.
SecondTurnOnlyByDisconnect ==
  [][\A g \in DOMAIN gs \cap DOMAIN gs' :
       (Cardinality(TurnsOn(g)) = 1 /\ Cardinality(TurnsOn(g)') = 2)
         => /\ gs[g].status = "playing"
            /\ Range(gs'[g].players) # Range(gs[g].players)
            /\ Range(gs'[g].players) \subseteq Range(gs[g].players)]_vars

====
